---- MODULE Spec2Model ----
(***************************************************************************)
(* Model of lean's reference-counted, path-copying splay tree              *)
(* (src/util/splay_tree.h) and of the VM builtin lc.get_local              *)
(* (src/library/tactic/vm_local_context.cpp).                              *)
(*                                                                         *)
(* The heap is an array of node cells; a pointer is a cell index and       *)
(* NULL is 0.  Every member function is an operator from the heap (and the *)
(* handle's m_ptr, and the thread_local path vector) to the heap after the *)
(* call, written statement by statement after the C++ code.                *)
(***************************************************************************)
EXTENDS Integers, Sequences, FiniteSets, TLC

\* ---------------------------------------------------------------- bounds
\* keys of the specification with every operation on both handles: 1..MaxKey
MaxKey == 3
\* keys of the specification with deep descents: 1..DeepMaxKey
DeepMaxKey == 4
\* keys and payloads of the specification with payloads: 1..PayMaxKey, 0..MaxPayload
PayMaxKey == 2
MaxPayload == 1
\* names of local declarations: 1..MaxNames
MaxNames == 4
\* the two handles the properties speak about ("A" and "B")
Handles == {1, 2}
\* T: a key the comparator looks at and a payload it ignores
Values == [key : 1..MaxKey, pay : {0}]
DeepValues == [key : 1..DeepMaxKey, pay : {0}]
PayValues == [key : 1..PayMaxKey, pay : 0..MaxPayload]
AllKeys == (1..MaxKey) \cup (1..DeepMaxKey) \cup (1..PayMaxKey)
\* heap cells; enough for every handle's tree plus the clones of one descent
MaxNodes == 3 * Cardinality(AllKeys) + 2
NodeIds == 1..MaxNodes
NULL == 0
NoValue == [key |-> 0, pay |-> 0]
Names == 1..MaxNames

\* ------------------------------------------------------------------ state
VARIABLES
    heap,     \* NodeIds -> node cell (m_left, m_right, m_value, m_rc, live)
    m_ptr,    \* Handles -> root pointer of the handle
    alive,    \* Handles -> the handle object exists (constructed, not destroyed)
    path,     \* insert_pull's static thread_local std::vector<entry>
    pm_path,  \* pull_max's static thread_local std::vector<entry>
    last,     \* the last completed public operation and what it returned
    snap,     \* history: Handles -> the in-order values a handle had when it was
              \*   last copied (as source or as target), until it is operated on itself
    abs,      \* history: Handles -> the mathematical set of keys the handle stands for
    lc_decls, \* the names declared in the local_context the VM program holds
    lc_last,  \* the last call of a VM builtin on it and the vm_obj it returned
    pc,       \* Threads -> the statement the thread is at
    loc,      \* Threads -> the call the thread runs and its local variables
    expect    \* history: Threads -> the elements the thread's call leaves when run alone

vars == <<heap, m_ptr, alive, path, pm_path, last, snap, abs, lc_decls, lc_last, pc, loc, expect>>

\* a cell that holds no node (never allocated, or deleted)
FreeCell == [m_left |-> NULL, m_right |-> NULL, m_value |-> NoValue, m_rc |-> 0, live |-> FALSE]

\* Faulty variant of cmp: equal keys are reported as "less"
cmp_noequal(v1, v2) == IF v1.key <= v2.key THEN -1 ELSE 1

\* CMP::operator(): three-way comparison on the key only
cmp(v1, v2) == IF v1.key < v2.key THEN -1 ELSE IF v1.key > v2.key THEN 1 ELSE 0

\* ------------------------------------------------------- node, ref counts
\* node::inc_ref(node * n) { if (n) n->inc_ref(); }
inc_ref(H, n) == IF n = NULL THEN H ELSE [H EXCEPT ![n].m_rc = @ + 1]

\* node::dec_ref(node * n): decrement; on reaching zero dealloc() deletes the
\* node, whose destructor dec_refs m_left and then m_right.
RECURSIVE dec_ref(_, _)
dec_ref(H, n) ==
    IF n = NULL THEN H
    ELSE IF H[n].m_rc = 1
         THEN LET H1 == dec_ref(H, H[n].m_left)
                  H2 == dec_ref(H1, H[n].m_right)
              IN  [H2 EXCEPT ![n] = FreeCell]
         ELSE [H EXCEPT ![n].m_rc = @ - 1]

\* operator new: the lowest free cell
Alloc(H) == CHOOSE i \in NodeIds : ~H[i].live /\ \A j \in NodeIds : j < i => H[j].live

\* new node(v, left, right): m_rc(0), inc_ref(m_left), inc_ref(m_right)
new_node_at(H, id, v, l, r) ==
    [heap |-> inc_ref(inc_ref([H EXCEPT ![id] = [m_left |-> l, m_right |-> r, m_value |-> v,
                                                 m_rc |-> 0, live |-> TRUE]], l), r),
     node |-> id]

new_node(H, v, l, r) == new_node_at(H, Alloc(H), v, l, r)

\* Faulty variant of copy_node: no node is made, the node itself is handed back
copy_node_same(H, n) == [heap |-> H, node |-> n]

\* node(node const & n) : node(n.m_value, n.m_left, n.m_right)
copy_node(H, n) == new_node(H, H[n].m_value, H[n].m_left, H[n].m_right)

\* Faulty variant of is_shared: no node is ever seen as shared
is_shared_never(H, n) == FALSE

\* bool is_shared() const { return m_rc > 1; }
is_shared(H, n) == H[n].m_rc > 1

\* Faulty variant of update: the node takes a reference on its new children
update_counted(H, n, l, r) == inc_ref(inc_ref([H EXCEPT ![n].m_left = l, ![n].m_right = r], l), r)

\* void update(node * n, node * l, node * r)
update(H, n, l, r) == [H EXCEPT ![n].m_left = l, ![n].m_right = r]

\* Faulty variant of set_value: the stored value is kept
set_value_keep(H, n, v) == H

\* n->m_value = v (insert_pull, on a node comparing equal to v)
set_value(H, n, v) == [H EXCEPT ![n].m_value = v]

\* entry(bool r, node * n)
entry(r, n) == [m_right |-> r, m_node |-> n]

Back(s) == s[Len(s)]
PopBack(s) == SubSeq(s, 1, Len(s) - 1)

\* ------------------------------------------------------------------ splay
\* Faulty variant of splay_step2: zig-zig left links g, not p, below n
splay_step2_drops(H, g_right, p_right, g, p, n) ==
    IF ~g_right /\ ~p_right THEN
        LET A == H[n].m_left
            B == H[n].m_right
            C == H[p].m_right
            D == H[g].m_right
        IN  update(update(update(H, g, C, D), p, B, g), n, A, g)
    ELSE IF ~g_right /\ p_right THEN
        LET A == H[p].m_left
            B == H[n].m_left
            C == H[n].m_right
            D == H[g].m_right
        IN  update(update(update(H, p, A, B), g, C, D), n, p, g)
    ELSE IF g_right /\ ~p_right THEN
        LET A == H[g].m_left
            B == H[n].m_left
            C == H[n].m_right
            D == H[p].m_right
        IN  update(update(update(H, g, A, B), p, C, D), n, g, p)
    ELSE
        LET A == H[g].m_left
            B == H[p].m_left
            C == H[n].m_left
            D == H[n].m_right
        IN  update(update(update(H, g, A, B), p, g, C), n, p, D)

\* One two-level step of splay_to_top's while loop on grandparent g (reached
\* by direction g_right), parent p (direction p_right) and target n.
splay_step2(H, g_right, p_right, g, p, n) ==
    IF ~g_right /\ ~p_right THEN
        \* zig-zig left: (g (p (n A B) C) D) ==> (n A (p B (g C D)))
        LET A == H[n].m_left
            B == H[n].m_right
            C == H[p].m_right
            D == H[g].m_right
        IN  update(update(update(H, g, C, D), p, B, g), n, A, p)
    ELSE IF ~g_right /\ p_right THEN
        \* zig-zag left-right: (g (p A (n B C)) D) ==> (n (p A B) (g C D))
        LET A == H[p].m_left
            B == H[n].m_left
            C == H[n].m_right
            D == H[g].m_right
        IN  update(update(update(H, p, A, B), g, C, D), n, p, g)
    ELSE IF g_right /\ ~p_right THEN
        \* zig-zag right-left: (g A (p (n B C) D)) ==> (n (g A B) (p C D))
        LET A == H[g].m_left
            B == H[n].m_left
            C == H[n].m_right
            D == H[p].m_right
        IN  update(update(update(H, g, A, B), p, C, D), n, g, p)
    ELSE
        \* zig-zig right: (g A (p B (n C D))) ==> (n (p (g A B) C) D)
        LET A == H[g].m_left
            B == H[p].m_left
            C == H[n].m_left
            D == H[n].m_right
        IN  update(update(update(H, g, A, B), p, g, C), n, p, D)

\* Faulty variant of splay_step1: zig left attaches p as the left child of n
splay_step1_swapped(H, p_right, p, n) ==
    IF ~p_right THEN
        LET A == H[n].m_left
            B == H[n].m_right
            C == H[p].m_right
        IN  update(update(H, p, B, C), n, p, A)
    ELSE
        LET A == H[p].m_left
            B == H[n].m_left
            C == H[n].m_right
        IN  update(update(H, p, A, B), n, p, C)

\* The final one-level step of splay_to_top (path.size() == 1).
splay_step1(H, p_right, p, n) ==
    IF ~p_right THEN
        \* zig left: (p (n A B) C) ==> (n A (p B C))
        LET A == H[n].m_left
            B == H[n].m_right
            C == H[p].m_right
        IN  update(update(H, p, B, C), n, A, p)
    ELSE
        \* zig right: (p A (n B C)) ==> (n (p A B) C)
        LET A == H[p].m_left
            B == H[n].m_left
            C == H[n].m_right
        IN  update(update(H, p, A, B), n, p, C)

\* void splay_to_top(std::vector<entry> & path, node * n): the heap and the
\* path vector it leaves behind.
RECURSIVE splay_to_top(_, _, _)
splay_to_top(H, pth, n) ==
    IF Len(pth) > 1 THEN
        splay_to_top(splay_step2(H, Back(PopBack(pth)).m_right, Back(pth).m_right,
                                 Back(PopBack(pth)).m_node, Back(pth).m_node, n),
                     PopBack(PopBack(pth)), n)
    ELSE IF Len(pth) = 1 THEN
        [heap |-> splay_step1(H, Back(pth).m_right, Back(pth).m_node, n), path |-> PopBack(pth)]
    ELSE [heap |-> H, path |-> pth]

\* update_parent below a parent (the path is not empty), after child->inc_ref():
\* dec_ref the old child in the slot the last entry names, store child there
relink(H, ptr, right, parent, child) ==
    IF right
    THEN [heap |-> [dec_ref(H, H[parent].m_right) EXCEPT ![parent].m_right = child], m_ptr |-> ptr]
    ELSE [heap |-> [dec_ref(H, H[parent].m_left) EXCEPT ![parent].m_left = child], m_ptr |-> ptr]

\* Faulty variant of update_parent: below a parent, child->inc_ref() is missing
update_parent_noinc(H, ptr, pth, child) ==
    IF pth = <<>> THEN
        [heap |-> dec_ref(inc_ref(H, child), ptr), m_ptr |-> child]
    ELSE
        relink(H, ptr, Back(pth).m_right, Back(pth).m_node, child)

\* void update_parent(std::vector<entry> const & path, node * child): links
\* child below the last path entry, or as the handle's root if the path is empty.
update_parent(H, ptr, pth, child) ==
    IF pth = <<>> THEN
        [heap |-> dec_ref(inc_ref(H, child), ptr), m_ptr |-> child]
    ELSE
        relink(inc_ref(H, child), ptr, Back(pth).m_right, Back(pth).m_node, child)

\* ----------------------------------------------------------- insert_pull
\* What the descent of insert_pull hands on: ret_false says the loop was left
\* through "return false" (empty tree); otherwise n is the splay target.
Descent(H, ptr, pth, n, found, ret_false) ==
    [heap |-> H, m_ptr |-> ptr, path |-> pth, n |-> n, found |-> found, ret_false |-> ret_false]

\* Faulty variant of insert_pull_leaf_linked: the splay target is the node
\* above the new leaf, as on a miss of pull
insert_pull_leaf_backs_up(u, pth, n) ==
    IF pth = <<>> THEN Descent(u.heap, u.m_ptr, pth, n, FALSE, FALSE)
    ELSE Descent(u.heap, u.m_ptr, PopBack(pth), Back(pth).m_node, FALSE, FALSE)

\* insert_pull, n == nullptr and is_insert: the leaf a (n = new node(v)) is
\* linked by update_parent(path, n)
insert_pull_leaf_linked(u, pth, n) == Descent(u.heap, u.m_ptr, pth, n, FALSE, FALSE)

insert_pull_leaf(a, ptr, pth) ==
    insert_pull_leaf_linked(update_parent(a.heap, ptr, pth, a.node), pth, a.node)

RECURSIVE insert_pull_loop(_, _, _, _, _, _)

\* insert_pull, n != nullptr and unshared: int c = cmp(v, n->m_value) and its three branches
insert_pull_cmp(H, ptr, pth, n, v, is_insert) ==
    IF cmp(v, H[n].m_value) < 0 THEN
        insert_pull_loop(H, ptr, Append(pth, entry(FALSE, n)), H[n].m_left, v, is_insert)
    ELSE IF cmp(v, H[n].m_value) > 0 THEN
        insert_pull_loop(H, ptr, Append(pth, entry(TRUE, n)), H[n].m_right, v, is_insert)
    ELSE
        Descent(IF is_insert THEN set_value(H, n, v) ELSE H, ptr, pth, n, TRUE, FALSE)

\* insert_pull, n->is_shared(): the clone a (n = new node(*n)) is linked by
\* update_parent(path, n), and the descent goes on from the clone
insert_pull_clone_linked(u, pth, n, v, is_insert) ==
    insert_pull_cmp(u.heap, u.m_ptr, pth, n, v, is_insert)

insert_pull_clone(a, ptr, pth, v, is_insert) ==
    insert_pull_clone_linked(update_parent(a.heap, ptr, pth, a.node), pth, a.node, v, is_insert)

\* The while(true) loop of insert_pull from the point where the cursor is n.
insert_pull_loop(H, ptr, pth, n, v, is_insert) ==
    IF n = NULL THEN
        IF is_insert THEN insert_pull_leaf(new_node(H, v, NULL, NULL), ptr, pth)
        ELSE IF pth = <<>> THEN Descent(H, ptr, pth, NULL, FALSE, TRUE)
        ELSE Descent(H, ptr, PopBack(pth), Back(pth).m_node, FALSE, FALSE)
    ELSE IF is_shared(H, n) THEN insert_pull_clone(copy_node(H, n), ptr, pth, v, is_insert)
    ELSE insert_pull_cmp(H, ptr, pth, n, v, is_insert)

\* Faulty variant of insert_pull_publish: storing n as the root takes a
\* reference on n
insert_pull_publish_counted(s, n, found) ==
    [heap |-> inc_ref(s.heap, n), m_ptr |-> n, path |-> s.path, found |-> found]

\* insert_pull after the loop: splay_to_top(path, n); m_ptr = n; return found
\* (s is what splay_to_top leaves)
insert_pull_publish(s, n, found) ==
    [heap |-> s.heap, m_ptr |-> n, path |-> s.path, found |-> found]

\* Faulty variant of insert_pull_end: the splay phase runs only when v was found
insert_pull_end_if_found(d) ==
    IF d.ret_false \/ ~d.found
    THEN [heap |-> d.heap, m_ptr |-> d.m_ptr, path |-> <<>>, found |-> FALSE]
    ELSE insert_pull_publish(splay_to_top(d.heap, d.path, d.n), d.n, d.found)

\* insert_pull from the end of the descent d
insert_pull_end(d) ==
    IF d.ret_false
    THEN [heap |-> d.heap, m_ptr |-> d.m_ptr, path |-> d.path, found |-> FALSE]
    ELSE insert_pull_publish(splay_to_top(d.heap, d.path, d.n), d.n, d.found)

\* insert_pull from the end of the descent d, without splay
insert_pull_end_nosplay(d) ==
    [heap |-> d.heap, m_ptr |-> d.m_ptr, path |-> <<>>, found |-> d.found]

\* Faulty variant of insert_pull: the splay phase and "m_ptr = n" are missing
insert_pull_nosplay(H, ptr, pth, v, is_insert) ==
    insert_pull_end_nosplay(insert_pull_loop(H, ptr, pth, ptr, v, is_insert))

\* bool insert_pull(T const & v, bool is_insert): descent, then splay_to_top
\* and m_ptr = n.
insert_pull(H, ptr, pth, v, is_insert) ==
    insert_pull_end(insert_pull_loop(H, ptr, pth, ptr, v, is_insert))

\* Faulty variant of pull: the descent runs in insert mode
pull_inserts(H, ptr, pth, v) == insert_pull(H, ptr, pth, v, TRUE)

\* Faulty variant of pull: reports found whenever a node was splayed to the root
found_if_rooted(r) == [r EXCEPT !.found = (r.m_ptr # NULL)]

pull_near(H, ptr, pth, v) == found_if_rooted(insert_pull(H, ptr, pth, v, FALSE))

\* bool pull(T const & v) { return insert_pull(v, false); }
pull(H, ptr, pth, v) == insert_pull(H, ptr, pth, v, FALSE)

\* --------------------------------------------------------------- pull_max
RECURSIVE pull_max_loop(_, _, _, _)

\* pull_max after the splay: m_ptr = n (s is what splay_to_top leaves)
pull_max_publish(s, n) == [heap |-> s.heap, m_ptr |-> n, path |-> s.path]

\* Faulty variant of pull_max_step: returns without splay_to_top on reaching the maximum
pull_max_step_returns(H, ptr, pth, n) ==
    IF H[n].m_right # NULL
    THEN pull_max_loop(H, ptr, Append(pth, entry(TRUE, n)), H[n].m_right)
    ELSE [heap |-> H, m_ptr |-> ptr, path |-> pth]

\* pull_max, n unshared: descend to the right, or splay n when it has no right child
pull_max_step(H, ptr, pth, n) ==
    IF H[n].m_right # NULL
    THEN pull_max_loop(H, ptr, Append(pth, entry(TRUE, n)), H[n].m_right)
    ELSE pull_max_publish(splay_to_top(H, pth, n), n)

\* pull_max, n->is_shared(): the clone a (n = new node(*n)) is linked by
\* update_parent(path, n)
pull_max_clone_linked(u, pth, n) == pull_max_step(u.heap, u.m_ptr, pth, n)

pull_max_clone(a, ptr, pth) ==
    pull_max_clone_linked(update_parent(a.heap, ptr, pth, a.node), pth, a.node)

\* The while(true) loop of pull_max from the point where the cursor is n.
pull_max_loop(H, ptr, pth, n) ==
    IF is_shared(H, n) THEN pull_max_clone(copy_node(H, n), ptr, pth)
    ELSE pull_max_step(H, ptr, pth, n)

\* Faulty variant of pull_max: returns at once
pull_max_returns(H, ptr, pth) == [heap |-> H, m_ptr |-> ptr, path |-> pth]

\* What the loop of pull_max has built when it reaches splay_to_top(path, n):
\* the heap, the root of the handle, the path and the target n.
RECURSIVE pull_max_descent(_, _, _, _)

pull_max_descent_step(H, ptr, pth, n) ==
    IF H[n].m_right # NULL
    THEN pull_max_descent(H, ptr, Append(pth, entry(TRUE, n)), H[n].m_right)
    ELSE Descent(H, ptr, pth, n, TRUE, FALSE)

pull_max_descent_linked(u, pth, n) == pull_max_descent_step(u.heap, u.m_ptr, pth, n)

pull_max_descent_clone(a, ptr, pth) ==
    pull_max_descent_linked(update_parent(a.heap, ptr, pth, a.node), pth, a.node)

pull_max_descent(H, ptr, pth, n) ==
    IF is_shared(H, n) THEN pull_max_descent_clone(copy_node(H, n), ptr, pth)
    ELSE pull_max_descent_step(H, ptr, pth, n)

\* void pull_max()
pull_max(H, ptr, pth) ==
    IF ptr = NULL THEN [heap |-> H, m_ptr |-> ptr, path |-> pth]
    ELSE pull_max_loop(H, ptr, pth, ptr)

\* ------------------------------------------------------------- traversals
\* static void to_buffer(node const * n, buffer<T> & r): in-order values
RECURSIVE to_buffer(_, _)
to_buffer(H, n) ==
    IF n = NULL THEN <<>>
    ELSE to_buffer(H, H[n].m_left) \o <<H[n].m_value>> \o to_buffer(H, H[n].m_right)

\* static R fold(node const * n, F & f, R r) with f = (T, a) -> a + 1, as size() uses it
RECURSIVE fold_count(_, _, _)
fold_count(H, n, r) ==
    IF n = NULL THEN r
    ELSE fold_count(H, H[n].m_right, fold_count(H, H[n].m_left, r) + 1)

\* unsigned size() const
size(H, ptr) == fold_count(H, ptr, 0)

\* bool empty() const
empty(ptr) == ptr = NULL

\* bool is_eqp(splay_tree const & t) const
is_eqp(ptr1, ptr2) == ptr1 = ptr2

\* bool check_invariant(node const * n) const: the conjunction of its lean_asserts
RECURSIVE check_invariant(_, _)
check_invariant(H, n) ==
    IF n = NULL THEN TRUE
    ELSE /\ H[n].m_left # NULL =>
               /\ check_invariant(H, H[n].m_left)
               /\ cmp(H[H[n].m_left].m_value, H[n].m_value) < 0
         /\ H[n].m_right # NULL =>
               /\ check_invariant(H, H[n].m_right)
               /\ cmp(H[n].m_value, H[H[n].m_right].m_value) < 0

\* T const * find(T const & v) const: the result, and how many nodes the
\* loop compared v against.
RECURSIVE find_loop(_, _, _, _)
find_loop(H, n, v, examined) ==
    IF n = NULL THEN [present |-> FALSE, value |-> NoValue, examined |-> examined]
    ELSE LET c == cmp(v, H[n].m_value)
         IN  IF c < 0 THEN find_loop(H, H[n].m_left, v, examined + 1)
             ELSE IF c > 0 THEN find_loop(H, H[n].m_right, v, examined + 1)
             ELSE [present |-> TRUE, value |-> H[n].m_value, examined |-> examined + 1]

find(H, ptr, v) == find_loop(H, ptr, v, 0)

\* bool contains(T const & v) const { return find(v); }
contains(H, ptr, v) == find(H, ptr, v).present

\* T const * find_memoize(T const & v)
find_memoize_result(r) ==
    [heap |-> r.heap, m_ptr |-> r.m_ptr, path |-> r.path,
     present |-> r.found,
     value |-> IF r.found THEN r.heap[r.m_ptr].m_value ELSE NoValue]

find_memoize(H, ptr, pth, v) == find_memoize_result(pull(H, ptr, pth, v))

\* ------------------------------------------------------------------ erase
\* What erase leaves.
Erased(H, ptr, pth, pmpth, found) ==
    [heap |-> H, m_ptr |-> ptr, path |-> pth, pm_path |-> pmpth, found |-> found]

\* erase, both subtrees non-empty, after left.pull_max() (pm is what it leaves):
\* right.m_ptr->inc_ref(); left.m_ptr->m_right = right.m_ptr; swap(left);
\* then ~right() and ~left() (left.m_ptr is nullptr after the swap)
erase_join(pm, right, pth) ==
    Erased(dec_ref(dec_ref([inc_ref(pm.heap, right) EXCEPT ![pm.m_ptr].m_right = right], right), NULL),
           pm.m_ptr, pth, pm.path, TRUE)

\* Faulty variant of erase_split: with an empty left subtree the handle takes
\* the right subtree's root without releasing the old root
erase_split_keeps_root(H, root, left, right, pth, pmpth) ==
    IF empty(left) THEN
        Erased(H, right, pth, pmpth, TRUE)
    ELSE IF empty(right) THEN
        Erased(dec_ref(dec_ref(H, NULL), root), left, pth, pmpth, TRUE)
    ELSE
        erase_join(pull_max(dec_ref(H, root), left, pmpth), right, pth)

\* erase after the two local handles left and right were constructed (H)
erase_split(H, root, left, right, pth, pmpth) ==
    IF empty(left) THEN
        \* swap(right); ~right() releases the old root, ~left() nothing
        Erased(dec_ref(dec_ref(H, root), NULL), right, pth, pmpth, TRUE)
    ELSE IF empty(right) THEN
        \* swap(left); ~right() nothing, ~left() releases the old root
        Erased(dec_ref(dec_ref(H, NULL), root), left, pth, pmpth, TRUE)
    ELSE
        \* clear(); left.pull_max(); ...
        erase_join(pull_max(dec_ref(H, root), left, pmpth), right, pth)

\* erase after pull(v) (r is what pull leaves):
\* splay_tree left(*this, m_ptr->m_left); splay_tree right(*this, m_ptr->m_right);
erase_pulled(r, pmpth) ==
    IF ~r.found
    THEN Erased(r.heap, r.m_ptr, r.path, pmpth, FALSE)
    ELSE erase_split(inc_ref(inc_ref(r.heap, r.heap[r.m_ptr].m_left), r.heap[r.m_ptr].m_right),
                     r.m_ptr, r.heap[r.m_ptr].m_left, r.heap[r.m_ptr].m_right, r.path, pmpth)

\* void erase(T const & v).  left and right are the two local handles; they
\* are destroyed (right first, then left) when the block is left.
erase(H, ptr, pth, pmpth, v) == erase_pulled(pull(H, ptr, pth, v), pmpth)

\* ------------------------------------------------------------- lean_assert
\* The lean_assert(!x->is_shared()) statements met by a call, evaluated at
\* the heap the call has built when it reaches them.  No statement between an
\* assertion and the write it guards changes a reference count.

\* update(n, l, r): lean_assert(!n->is_shared())
update_asserts(H, n) == ~is_shared(H, n)

\* one round of splay_to_top's while loop: the assertions on g and p, and
\* those of the three calls of update
splay_step2_asserts(H, g, p, n) ==
    /\ ~is_shared(H, g) /\ ~is_shared(H, p)
    /\ update_asserts(H, g) /\ update_asserts(H, p) /\ update_asserts(H, n)

\* the one-level step: the assertions of the two calls of update
splay_step1_asserts(H, p, n) == update_asserts(H, p) /\ update_asserts(H, n)

\* splay_to_top(path, n): the assertion on n at entry, after the loop and at
\* the end, and the assertions of every step
RECURSIVE splay_to_top_asserts(_, _, _)
splay_to_top_asserts(H, pth, n) ==
    /\ ~is_shared(H, n)
    /\ IF Len(pth) > 1 THEN
           /\ splay_step2_asserts(H, Back(PopBack(pth)).m_node, Back(pth).m_node, n)
           /\ splay_to_top_asserts(splay_step2(H, Back(PopBack(pth)).m_right, Back(pth).m_right,
                                               Back(PopBack(pth)).m_node, Back(pth).m_node, n),
                                   PopBack(PopBack(pth)), n)
       ELSE IF Len(pth) = 1 THEN
           /\ splay_step1_asserts(H, Back(pth).m_node, n)
           /\ ~is_shared(splay_step1(H, Back(pth).m_right, Back(pth).m_node, n), n)
       ELSE TRUE

\* update_parent(path, child): lean_assert(!parent->is_shared()), after child->inc_ref()
update_parent_asserts(H, pth, child) ==
    pth # <<>> => ~is_shared(inc_ref(H, child), Back(pth).m_node)

RECURSIVE insert_pull_asserts(_, _, _, _, _, _)

\* insert_pull on an unshared n: lean_assert(!n->is_shared()), which also
\* guards n->m_value = v; then the descent goes on, or the splay phase starts
insert_pull_cmp_asserts(H, ptr, pth, n, v, is_insert) ==
    /\ ~is_shared(H, n)
    /\ IF cmp(v, H[n].m_value) < 0 THEN
           insert_pull_asserts(H, ptr, Append(pth, entry(FALSE, n)), H[n].m_left, v, is_insert)
       ELSE IF cmp(v, H[n].m_value) > 0 THEN
           insert_pull_asserts(H, ptr, Append(pth, entry(TRUE, n)), H[n].m_right, v, is_insert)
       ELSE
           splay_to_top_asserts(IF is_insert THEN set_value(H, n, v) ELSE H, pth, n)

\* insert_pull after update_parent(path, n) linked the clone n (u is what it leaves)
insert_pull_linked_asserts(u, pth, n, v, is_insert) ==
    insert_pull_cmp_asserts(u.heap, u.m_ptr, pth, n, v, is_insert)

\* insert_pull on a shared n: a is the clone
insert_pull_clone_asserts(a, ptr, pth, v, is_insert) ==
    /\ update_parent_asserts(a.heap, pth, a.node)
    /\ insert_pull_linked_asserts(update_parent(a.heap, ptr, pth, a.node), pth, a.node, v, is_insert)

\* insert_pull on n == nullptr with is_insert: a is the new leaf
insert_pull_leaf_asserts(a, ptr, pth) ==
    /\ update_parent_asserts(a.heap, pth, a.node)
    /\ splay_to_top_asserts(update_parent(a.heap, ptr, pth, a.node).heap, pth, a.node)

\* every assertion insert_pull meets from the point where the cursor is n
insert_pull_asserts(H, ptr, pth, n, v, is_insert) ==
    IF n = NULL THEN
        IF is_insert THEN insert_pull_leaf_asserts(new_node(H, v, NULL, NULL), ptr, pth)
        ELSE IF pth = <<>> THEN TRUE
        ELSE splay_to_top_asserts(H, PopBack(pth), Back(pth).m_node)
    ELSE IF is_shared(H, n) THEN insert_pull_clone_asserts(copy_node(H, n), ptr, pth, v, is_insert)
    ELSE insert_pull_cmp_asserts(H, ptr, pth, n, v, is_insert)

RECURSIVE pull_max_asserts(_, _, _, _)

\* pull_max on an unshared n
pull_max_step_asserts(H, ptr, pth, n) ==
    IF H[n].m_right # NULL
    THEN pull_max_asserts(H, ptr, Append(pth, entry(TRUE, n)), H[n].m_right)
    ELSE splay_to_top_asserts(H, pth, n)

pull_max_linked_asserts(u, pth, n) == pull_max_step_asserts(u.heap, u.m_ptr, pth, n)

\* pull_max on a shared n: a is the clone
pull_max_clone_asserts(a, ptr, pth) ==
    /\ update_parent_asserts(a.heap, pth, a.node)
    /\ pull_max_linked_asserts(update_parent(a.heap, ptr, pth, a.node), pth, a.node)

\* every assertion pull_max meets from the point where the cursor is n
pull_max_asserts(H, ptr, pth, n) ==
    IF is_shared(H, n) THEN pull_max_clone_asserts(copy_node(H, n), ptr, pth)
    ELSE pull_max_step_asserts(H, ptr, pth, n)

\* erase, both subtrees non-empty: the assertions of left.pull_max() on the
\* heap H that clear() leaves, and left.m_ptr->m_right = right.m_ptr written
\* to a node of reference count at most one (pm is what pull_max leaves)
erase_attach_unshared(pm, right) == ~is_shared(inc_ref(pm.heap, right), pm.m_ptr)

erase_join_asserts(H, left, right, pmpth) ==
    /\ pull_max_asserts(H, left, pmpth, left)
    /\ erase_attach_unshared(pull_max(H, left, pmpth), right)

\* erase after pull(v) (r is what pull leaves)
erase_pulled_asserts(r, pmpth) ==
    (r.found /\ r.heap[r.m_ptr].m_left # NULL /\ r.heap[r.m_ptr].m_right # NULL) =>
        erase_join_asserts(dec_ref(inc_ref(inc_ref(r.heap, r.heap[r.m_ptr].m_left),
                                           r.heap[r.m_ptr].m_right), r.m_ptr),
                           r.heap[r.m_ptr].m_left, r.heap[r.m_ptr].m_right, pmpth)

\* every assertion erase(v) meets
erase_asserts(H, ptr, pth, pmpth, v) ==
    /\ insert_pull_asserts(H, ptr, pth, ptr, v, FALSE)
    /\ erase_pulled_asserts(pull(H, ptr, pth, v), pmpth)

\* -------------------------------------------------- handle-level functions
\* Faulty variant of copy_ctor: node::inc_ref(m_ptr) is missing
copy_ctor_noinc(H, sptr) == [heap |-> H, m_ptr |-> sptr]

\* splay_tree(splay_tree const & s) : m_ptr(s.m_ptr) { node::inc_ref(m_ptr); }
copy_ctor(H, sptr) == [heap |-> inc_ref(H, sptr), m_ptr |-> sptr]

\* ~splay_tree() { node::dec_ref(m_ptr); }
dtor(H, ptr) == dec_ref(H, ptr)

\* void clear() { node::dec_ref(m_ptr); m_ptr = nullptr; }
clear(H, ptr) == [heap |-> dec_ref(H, ptr), m_ptr |-> NULL]

\* operator=(splay_tree const & s) { LEAN_COPY_REF(splay_tree, s); }:
\* inc_ref the source root, dec_ref the old root, take the source root
copy_assign(H, ptr, sptr) == [heap |-> dec_ref(inc_ref(H, sptr), ptr), m_ptr |-> sptr]

\* operator=(splay_tree && s) { LEAN_MOVE_REF(splay_tree, s); }:
\* dec_ref the old root, take the source root, null the source
move_assign(H, ptr, sptr) == [heap |-> dec_ref(H, ptr), m_ptr |-> sptr, s_ptr |-> NULL]

\* splay_tree insert(splay_tree & t, T const & v) { splay_tree r(t); r.insert(v); return r; }
free_insert_on(r, pth, v) == insert_pull(r.heap, r.m_ptr, pth, v, TRUE)

free_insert(H, tptr, pth, v) == free_insert_on(copy_ctor(H, tptr), pth, v)

\* splay_tree erase(splay_tree & t, T const & v) { splay_tree r(t); r.erase(v); return r; }
free_erase_on(r, pth, pmpth, v) == erase(r.heap, r.m_ptr, pth, pmpth, v)

free_erase(H, tptr, pth, pmpth, v) == free_erase_on(copy_ctor(H, tptr), pth, pmpth, v)

\* -------------------------------------------------------------- addresses
\* The program only ever compares node addresses for equality, so a heap is
\* kept up to renaming of its cells: after each public operation the nodes
\* are numbered in the order a pre-order walk from handle 1's root, then
\* handle 2's root, meets them; nodes no handle reaches follow in their old order.
HandleSeq == <<1, 2>>

SeqRange(s) == {s[i] : i \in 1..Len(s)}

RECURSIVE Walk(_, _, _)
Walk(H, n, acc) ==
    IF n = NULL \/ n \in SeqRange(acc) THEN acc
    ELSE Walk(H, H[n].m_right, Walk(H, H[n].m_left, Append(acc, n)))

RECURSIVE WalkHandles(_, _, _, _)
WalkHandles(H, P, i, acc) ==
    IF i > Len(HandleSeq) THEN acc
    ELSE WalkHandles(H, P, i + 1, Walk(H, P[HandleSeq[i]], acc))

RECURSIVE Ascending(_)
Ascending(S) ==
    IF S = {} THEN <<>>
    ELSE LET m == CHOOSE x \in S : \A y \in S : x <= y
         IN  <<m>> \o Ascending(S \ {m})

Unreached(H, reached) == reached \o Ascending({i \in NodeIds : H[i].live} \ SeqRange(reached))

CellOrder(H, P) == Unreached(H, WalkHandles(H, P, 1, <<>>))

Renamed(order, n) ==
    IF n = NULL THEN NULL ELSE CHOOSE i \in 1..Len(order) : order[i] = n

RelocateBy(H, P, order) ==
    [heap |-> [i \in NodeIds |->
                 IF i <= Len(order)
                 THEN [H[order[i]] EXCEPT !.m_left = Renamed(order, @),
                                          !.m_right = Renamed(order, @)]
                 ELSE FreeCell],
     m_ptr |-> [h \in Handles |-> Renamed(order, P[h])]]

Relocate(H, P) == RelocateBy(H, P, CellOrder(H, P))

\* ------------------------------------------------- vm_local_context.cpp
\* A local_context is the set of the names it declares.

\* optional<local_decl> local_context::find_local_decl(name const & n) const,
\* as the condition of an if: a declaration named n exists
find_local_decl(lctx, n) == n \in lctx

\* expr local_context::get_local(name const & n) const: the local constant
\* of the declaration named n.  For a name that is not declared the call has
\* no defined result: it fails, or hands back some expression.
get_local(lctx, n) ==
    IF find_local_decl(lctx, n) THEN {[kind |-> "local", name |-> n]}
    ELSE {[kind |-> "fails", name |-> 0]} \cup {[kind |-> "local", name |-> m] : m \in Names}

mk_vm_none == [kind |-> "none", name |-> 0]

\* mk_vm_some(to_obj(e)) for an expression e; a failed call returns nothing
mk_vm_some(e) == IF e.kind = "local" THEN [kind |-> "some", name |-> e.name] ELSE e

\* vm_obj lc_get_local(vm_obj const & n, vm_obj const & lc): the vm_objs the
\* call can return, and whether it called get_local
lc_get_local(n, lctx) ==
    IF find_local_decl(lctx, n)
    THEN {[ret |-> mk_vm_none, called_get_local |-> FALSE]}
    ELSE {[ret |-> mk_vm_some(e), called_get_local |-> TRUE] : e \in get_local(lctx, n)}

\* expr local_context::mk_local_decl(name const & pn, expr const & type,
\* binder_info bi): the contexts that declare one more name, a fresh one
mk_local_decl(lctx) == {lctx \cup {n} : n \in Names \ lctx}

LcRec(op, n, ret, called) == [op |-> op, n |-> n, ret |-> ret, called_get_local |-> called]

\* ------------------------------------------------------------- two threads
\* Thread t runs one call of insert, erase or find_memoize on handle t; the
\* two handles share nodes.  A step of a thread is one access to a node: a
\* read of its count, an atomic increment or decrement of its count, a read
\* or a write of its fields, its allocation or its deallocation.  What a
\* statement does to the thread's own handle and to its locals (the cursor
\* n, the thread_local path, the local handles left and right of erase) goes
\* with the access next to it.
Threads == Handles

Other(t) == CHOOSE u \in Threads : u # t

ThreadOps == {"insert", "erase", "find_memoize"}

\* the slot whose old pointer a thread has given up with dec_ref and not yet
\* overwritten: the root of the handle it works on, or a child slot of a node
NoSlot == [kind |-> "none", node |-> NULL, right |-> FALSE]
RootSlot == [kind |-> "root", node |-> NULL, right |-> FALSE]
ChildSlot(parent, right) == [kind |-> "child", node |-> parent, right |-> right]

\* a node whose count reached zero: delete runs ~node(), which dec_refs
\* m_left (stage 0), then m_right (stage 1), and then frees the node (stage 2)
Frame(x) == [node |-> x, stage |-> 0]

\* the locals of a thread that is not inside a call
Idle ==
    [op |-> "none", v |-> NoValue, is_insert |-> FALSE, n |-> NULL, found |-> FALSE,
     path |-> <<>>, child |-> NULL, up_ret |-> "", fr_ret |-> "", frames |-> <<>>,
     pend |-> <<>>, left |-> NULL, right |-> NULL, self |-> "this", rel |-> NoSlot]

\* the locals of a thread whose call has returned
Finished(l) == [Idle EXCEPT !.op = l.op, !.v = l.v, !.found = l.found]

\* ---------------------------------------------------------------- actions
\* op: the operation; h: the handle it was called on (the argument t of a free
\* function, the source of a copy or move); d: the handle that received the
\* result (0 if none); v: the value argument; found/ret: what it returned;
\* rep: the operation repeats the one before it, with the same value, on the
\* handle that held the earlier result.
Rec(op, h, d, v, found, ret, rep) ==
    [op |-> op, h |-> h, d |-> d, v |-> v, found |-> found, ret |-> ret, rep |-> rep]

FreeOps == {"free_insert", "free_erase"}
InsertOps == {"insert", "free_insert"}
EraseOps == {"erase", "free_erase"}

\* the handle that holds the result of the operation l
ResultOf(l) == IF l.op \in FreeOps THEN l.d ELSE l.h

Repeats(ops, h, v) == last.op \in ops /\ ResultOf(last) = h /\ last.v = v

NoSnap == [valid |-> FALSE, seq |-> <<>>]
SnapOf(H, ptr) == [valid |-> TRUE, seq |-> to_buffer(H, ptr)]

FreeCells(H) == {i \in NodeIds : ~H[i].live}

\* the allocator can serve a descent through the tree rooted at ptr
HasRoom(H, ptr) == Cardinality(FreeCells(H)) >= size(H, ptr) + 1

\* the heap and the root pointers a completed operation leaves
Placed(c) == heap' = c.heap /\ m_ptr' = c.m_ptr /\ UNCHANGED <<lc_decls, lc_last, pc, loc, expect>>

Commit(H, P) == Placed(Relocate(H, P))

\* the handle h takes the root the function result r names
Assigned(h, r) == Commit(r.heap, [m_ptr EXCEPT ![h] = r.m_ptr])

\* h = std::move(s): h takes the root, s gets nullptr
Moved(h, s, r) == Commit(r.heap, [m_ptr EXCEPT ![h] = r.m_ptr, ![s] = r.s_ptr])

\* the handle returned by a free function (r) is move-assigned to handle d
\* and the temporary, now empty, is destroyed
TakenBy(d, r) ==
    [r EXCEPT !.heap = dtor(move_assign(r.heap, m_ptr[d], r.m_ptr).heap, NULL)]

\* an insert-like call with result r has returned: op was called on handle h,
\* handle d holds the result
Returned(op, h, d, v, r, ops) ==
    /\ Assigned(d, r)
    /\ path' = r.path
    /\ last' = Rec(op, h, IF op \in FreeOps THEN d ELSE 0, v, r.found, NoValue,
                   Repeats(ops, h, v))

\* an erase-like call with result r has returned
ReturnedErase(op, h, d, v, r) ==
    /\ Returned(op, h, d, v, r, EraseOps)
    /\ pm_path' = r.pm_path

\* find_memoize with result r has returned
ReturnedFind(h, v, r) ==
    /\ Assigned(h, r)
    /\ path' = r.path
    /\ last' = Rec("find_memoize", h, 0, v, r.present, r.value, FALSE)

Init ==
    /\ heap = [i \in NodeIds |-> FreeCell]
    /\ m_ptr = [h \in Handles |-> NULL]
    /\ alive = [h \in Handles |-> TRUE]
    /\ path = <<>>
    /\ pm_path = <<>>
    /\ last = Rec("init", 0, 0, NoValue, FALSE, NoValue, FALSE)
    /\ snap = [h \in Handles |-> NoSnap]
    /\ abs = [h \in Handles |-> {}]
    /\ lc_decls = {}
    /\ lc_last = LcRec("init", 0, mk_vm_none, FALSE)
    /\ pc = [t \in Threads |-> "idle"]
    /\ loc = [t \in Threads |-> Idle]
    /\ expect = [t \in Threads |-> <<>>]

\* splay_tree(CMP const & cmp = CMP()) : m_ptr(nullptr)
Construct(h) ==
    /\ ~alive[h]
    /\ alive' = [alive EXCEPT ![h] = TRUE]
    /\ Commit(heap, [m_ptr EXCEPT ![h] = NULL])
    /\ last' = Rec("construct", h, 0, NoValue, FALSE, NoValue, FALSE)
    /\ snap' = [snap EXCEPT ![h] = NoSnap]
    /\ abs' = [abs EXCEPT ![h] = {}]
    /\ UNCHANGED <<path, pm_path>>

\* splay_tree h(s)
CopyConstruct(h, s) ==
    /\ ~alive[h] /\ alive[s]
    /\ Assigned(h, copy_ctor(heap, m_ptr[s]))
    /\ alive' = [alive EXCEPT ![h] = TRUE]
    /\ last' = Rec("copy", s, h, NoValue, FALSE, NoValue, FALSE)
    /\ snap' = [snap EXCEPT ![h] = SnapOf(heap, m_ptr[s]), ![s] = SnapOf(heap, m_ptr[s])]
    /\ abs' = [abs EXCEPT ![h] = abs[s]]
    /\ UNCHANGED <<path, pm_path>>

\* splay_tree h(std::move(s)) : m_ptr(s.m_ptr) { s.m_ptr = nullptr; }
MoveConstruct(h, s) ==
    /\ ~alive[h] /\ alive[s]
    /\ Commit(heap, [m_ptr EXCEPT ![h] = m_ptr[s], ![s] = NULL])
    /\ alive' = [alive EXCEPT ![h] = TRUE]
    /\ last' = Rec("move", s, h, NoValue, FALSE, NoValue, FALSE)
    /\ snap' = [snap EXCEPT ![h] = NoSnap, ![s] = NoSnap]
    /\ abs' = [abs EXCEPT ![h] = abs[s], ![s] = {}]
    /\ UNCHANGED <<path, pm_path>>

\* ~splay_tree()
Destroy(h) ==
    /\ alive[h]
    /\ Commit(dtor(heap, m_ptr[h]), [m_ptr EXCEPT ![h] = NULL])
    /\ alive' = [alive EXCEPT ![h] = FALSE]
    /\ last' = Rec("destroy", h, 0, NoValue, FALSE, NoValue, FALSE)
    /\ snap' = [snap EXCEPT ![h] = NoSnap]
    /\ abs' = [abs EXCEPT ![h] = {}]
    /\ UNCHANGED <<path, pm_path>>

\* h = s
CopyAssign(h, s) ==
    /\ alive[h] /\ alive[s]
    /\ Assigned(h, copy_assign(heap, m_ptr[h], m_ptr[s]))
    /\ last' = Rec("copy", s, h, NoValue, FALSE, NoValue, FALSE)
    /\ snap' = [snap EXCEPT ![h] = SnapOf(heap, m_ptr[s]), ![s] = SnapOf(heap, m_ptr[s])]
    /\ abs' = [abs EXCEPT ![h] = abs[s]]
    /\ UNCHANGED <<alive, path, pm_path>>

\* h = std::move(s)
MoveAssign(h, s) ==
    /\ alive[h] /\ alive[s] /\ h # s
    /\ Moved(h, s, move_assign(heap, m_ptr[h], m_ptr[s]))
    /\ last' = Rec("move", s, h, NoValue, FALSE, NoValue, FALSE)
    /\ snap' = [snap EXCEPT ![h] = NoSnap, ![s] = NoSnap]
    /\ abs' = [abs EXCEPT ![h] = abs[s], ![s] = {}]
    /\ UNCHANGED <<alive, path, pm_path>>

\* void swap(splay_tree & t) { std::swap(m_ptr, t.m_ptr); }
Swap(h, t) ==
    /\ alive[h] /\ alive[t] /\ h # t
    /\ Commit(heap, [m_ptr EXCEPT ![h] = m_ptr[t], ![t] = m_ptr[h]])
    /\ last' = Rec("swap", h, t, NoValue, FALSE, NoValue, FALSE)
    /\ snap' = [snap EXCEPT ![h] = NoSnap, ![t] = NoSnap]
    /\ abs' = [abs EXCEPT ![h] = abs[t], ![t] = abs[h]]
    /\ UNCHANGED <<alive, path, pm_path>>

\* h.clear()
Clear(h) ==
    /\ alive[h]
    /\ Assigned(h, clear(heap, m_ptr[h]))
    /\ last' = Rec("clear", h, 0, NoValue, FALSE, NoValue, FALSE)
    /\ snap' = [snap EXCEPT ![h] = NoSnap]
    /\ abs' = [abs EXCEPT ![h] = {}]
    /\ UNCHANGED <<alive, path, pm_path>>

\* h.insert(v)
Insert(h, v) ==
    /\ alive[h] /\ HasRoom(heap, m_ptr[h])
    /\ Returned("insert", h, h, v, insert_pull(heap, m_ptr[h], path, v, TRUE), InsertOps)
    /\ snap' = [snap EXCEPT ![h] = NoSnap]
    /\ abs' = [abs EXCEPT ![h] = @ \cup {v.key}]
    /\ UNCHANGED <<alive, pm_path>>

\* h.erase(v)
Erase(h, v) ==
    /\ alive[h] /\ HasRoom(heap, m_ptr[h])
    /\ ReturnedErase("erase", h, h, v, erase(heap, m_ptr[h], path, pm_path, v))
    /\ snap' = [snap EXCEPT ![h] = NoSnap]
    /\ abs' = [abs EXCEPT ![h] = @ \ {v.key}]
    /\ UNCHANGED alive

\* h.find_memoize(v)
FindMemoize(h, v) ==
    /\ alive[h] /\ HasRoom(heap, m_ptr[h])
    /\ ReturnedFind(h, v, find_memoize(heap, m_ptr[h], path, v))
    /\ snap' = [snap EXCEPT ![h] = NoSnap]
    /\ UNCHANGED <<alive, pm_path, abs>>

\* d = insert(t, v): the returned handle is move-assigned to d
FreeInsert(t, v, d) ==
    /\ alive[t] /\ alive[d] /\ HasRoom(heap, m_ptr[t])
    /\ Returned("free_insert", t, d, v, TakenBy(d, free_insert(heap, m_ptr[t], path, v)), InsertOps)
    /\ snap' = [snap EXCEPT ![d] = NoSnap]
    /\ abs' = [abs EXCEPT ![d] = abs[t] \cup {v.key}]
    /\ UNCHANGED <<alive, pm_path>>

\* d = erase(t, v): the returned handle is move-assigned to d
FreeErase(t, v, d) ==
    /\ alive[t] /\ alive[d] /\ HasRoom(heap, m_ptr[t])
    /\ ReturnedErase("free_erase", t, d, v, TakenBy(d, free_erase(heap, m_ptr[t], path, pm_path, v)))
    /\ snap' = [snap EXCEPT ![d] = NoSnap]
    /\ abs' = [abs EXCEPT ![d] = abs[t] \ {v.key}]
    /\ UNCHANGED alive

\* every operation, on both handles, keys 1..MaxKey
Next ==
    \/ \E h \in Handles : Construct(h)
    \/ \E h \in Handles, s \in Handles : CopyConstruct(h, s)
    \/ \E h \in Handles, s \in Handles : MoveConstruct(h, s)
    \/ \E h \in Handles : Destroy(h)
    \/ \E h \in Handles, s \in Handles : CopyAssign(h, s)
    \/ \E h \in Handles, s \in Handles : MoveAssign(h, s)
    \/ \E h \in Handles, t \in Handles : Swap(h, t)
    \/ \E h \in Handles : Clear(h)
    \/ \E h \in Handles, v \in Values : Insert(h, v)
    \/ \E h \in Handles, v \in Values : Erase(h, v)
    \/ \E h \in Handles, v \in Values : FindMemoize(h, v)
    \/ \E t \in Handles, d \in Handles, v \in Values : FreeInsert(t, v, d)
    \/ \E t \in Handles, d \in Handles, v \in Values : FreeErase(t, v, d)

Spec == Init /\ [][Next]_vars

\* deep descents: handle 1 is operated on with keys 1..DeepMaxKey, handle 2
\* takes copies of it
NextDeep ==
    \/ \E v \in DeepValues : Insert(1, v)
    \/ \E v \in DeepValues : Erase(1, v)
    \/ \E v \in DeepValues : FindMemoize(1, v)
    \/ Clear(1)
    \/ CopyAssign(2, 1)
    \/ Swap(1, 2)

SpecDeep == Init /\ [][NextDeep]_vars

\* payloads: values with equal keys and different payloads
NextPay ==
    \/ \E h \in Handles, v \in PayValues : Insert(h, v)
    \/ \E h \in Handles, v \in PayValues : Erase(h, v)
    \/ \E h \in Handles, v \in PayValues : FindMemoize(h, v)
    \/ \E h \in Handles : Clear(h)
    \/ \E h \in Handles, s \in Handles : CopyAssign(h, s)
    \/ \E h \in Handles, s \in Handles : CopyConstruct(h, s)
    \/ \E h \in Handles : Destroy(h)

SpecPay == Init /\ [][NextPay]_vars

\* vm_obj lc_mk_local_decl(pn, y, bi, lc): the VM program goes on with the
\* context of the returned pair
LcMkLocalDecl ==
    /\ lc_decls # Names
    /\ lc_decls' \in mk_local_decl(lc_decls)
    /\ lc_last' = LcRec("mk_local", 0, [kind |-> "some", name |-> 0], FALSE)
    /\ UNCHANGED <<heap, m_ptr, alive, path, pm_path, last, snap, abs, pc, loc, expect>>

\* lc.get_local n on the context the VM program holds
LcGetLocal(n) ==
    /\ \E r \in lc_get_local(n, lc_decls) :
          lc_last' = LcRec("get_local", n, r.ret, r.called_get_local)
    /\ UNCHANGED <<heap, m_ptr, alive, path, pm_path, last, snap, abs, lc_decls, pc, loc, expect>>

\* the VM builtins of vm_local_context.cpp
NextLc ==
    \/ LcMkLocalDecl
    \/ \E n \in Names : LcGetLocal(n)

SpecLc == Init /\ [][NextLc]_vars

\* ----------------------------------------------------- steps of a thread
\* pc and locals of thread t after a step
Thr(t, k, l) ==
    /\ pc' = [pc EXCEPT ![t] = k]
    /\ loc' = [loc EXCEPT ![t] = IF k = "done" THEN Finished(l) ELSE l]

\* what no step of a thread touches
ThreadFrame == UNCHANGED <<alive, path, pm_path, last, snap, abs, lc_decls, lc_last, expect>>

\* the root pointer of the handle the descent of thread t works on: *this in
\* insert_pull, the local handle left in pull_max
Root(t) == IF loc[t].self = "this" THEN m_ptr[t] ELSE loc[t].left

\* m_ptr = x on the handle the descent works on, then go on at k
RootSet(t, l, x, k) ==
    IF l.self = "this"
    THEN m_ptr' = [m_ptr EXCEPT ![t] = x] /\ Thr(t, k, l)
    ELSE UNCHANGED m_ptr /\ Thr(t, k, [l EXCEPT !.left = x])

\* node::dec_ref(x) with an atomic decrement: the thread that takes the count
\* from one to zero deletes the node (and goes on at k when that is done)
Dec(t, l, x, k) ==
    /\ heap' = IF x = NULL THEN heap ELSE [heap EXCEPT ![x].m_rc = @ - 1]
    /\ IF x # NULL /\ heap[x].m_rc = 1
       THEN Thr(t, "free", [l EXCEPT !.frames = <<Frame(x)>>, !.fr_ret = k])
       ELSE Thr(t, k, l)

\* delete of the node on top of the frames of thread t, one access a step
Free(t) ==
    /\ pc[t] = "free"
    /\ UNCHANGED m_ptr /\ ThreadFrame
    /\ LET l == loc[t]
           f == Back(l.frames)
           c == IF f.stage = 0 THEN heap[f.node].m_left ELSE heap[f.node].m_right
           up == [l EXCEPT !.frames[Len(l.frames)].stage = f.stage + 1]
       IN  IF f.stage < 2 THEN
               /\ heap' = IF c = NULL THEN heap ELSE [heap EXCEPT ![c].m_rc = @ - 1]
               /\ Thr(t, "free",
                      IF c # NULL /\ heap[c].m_rc = 1
                      THEN [up EXCEPT !.frames = Append(@, Frame(c))]
                      ELSE up)
           ELSE
               /\ heap' = [heap EXCEPT ![f.node] = FreeCell]
               /\ IF Len(l.frames) > 1
                  THEN Thr(t, "free", [l EXCEPT !.frames = PopBack(@)])
                  ELSE Thr(t, l.fr_ret, [l EXCEPT !.frames = <<>>, !.fr_ret = ""])

\* Faulty variant of IpLoop: the descent never copies a shared node
IpLoop_unchecked(t) ==
    /\ pc[t] = "ip_loop"
    /\ UNCHANGED m_ptr /\ ThreadFrame
    /\ LET l == loc[t]
       IN  IF l.n = NULL THEN
               IF l.is_insert THEN
                   /\ heap' = new_node(heap, l.v, NULL, NULL).heap
                   /\ Thr(t, "up_inc", [l EXCEPT !.n = Alloc(heap), !.child = Alloc(heap),
                                                 !.up_ret = "sp_loop"])
               ELSE IF l.path = <<>> THEN
                   UNCHANGED heap /\ Thr(t, "done", l)
               ELSE
                   /\ UNCHANGED heap
                   /\ Thr(t, "sp_loop", [l EXCEPT !.n = Back(l.path).m_node, !.path = PopBack(@)])
           ELSE
               UNCHANGED heap /\ Thr(t, "ip_cmp", l)

\* insert_pull, top of the loop: n == nullptr (new leaf, return false, or
\* back up to the last path node), or the read of n's count in n->is_shared()
IpLoop(t) ==
    /\ pc[t] = "ip_loop"
    /\ UNCHANGED m_ptr /\ ThreadFrame
    /\ LET l == loc[t]
       IN  IF l.n = NULL THEN
               IF l.is_insert THEN
                   /\ heap' = new_node(heap, l.v, NULL, NULL).heap
                   /\ Thr(t, "up_inc", [l EXCEPT !.n = Alloc(heap), !.child = Alloc(heap),
                                                 !.up_ret = "sp_loop"])
               ELSE IF l.path = <<>> THEN
                   UNCHANGED heap /\ Thr(t, "done", l)
               ELSE
                   /\ UNCHANGED heap
                   /\ Thr(t, "sp_loop", [l EXCEPT !.n = Back(l.path).m_node, !.path = PopBack(@)])
           ELSE
               /\ UNCHANGED heap
               /\ IF is_shared(heap, l.n)
                  THEN Thr(t, "clone", [l EXCEPT !.up_ret = "ip_cmp"])
                  ELSE Thr(t, "ip_cmp", l)

\* n = new node(*n): the fields of n are read into a new node of count zero
Clone(t) ==
    /\ pc[t] = "clone"
    /\ UNCHANGED m_ptr /\ ThreadFrame
    /\ heap' = [heap EXCEPT ![Alloc(heap)] =
                   [m_left |-> heap[loc[t].n].m_left, m_right |-> heap[loc[t].n].m_right,
                    m_value |-> heap[loc[t].n].m_value, m_rc |-> 0, live |-> TRUE]]
    /\ Thr(t, "clone_inc_l", [loc[t] EXCEPT !.n = Alloc(heap)])

\* the constructor of the new node: inc_ref(m_left)
CloneIncL(t) ==
    /\ pc[t] = "clone_inc_l"
    /\ UNCHANGED m_ptr /\ ThreadFrame
    /\ heap' = inc_ref(heap, heap[loc[t].n].m_left)
    /\ Thr(t, "clone_inc_r", loc[t])

\* the constructor of the new node: inc_ref(m_right); update_parent(path, n) follows
CloneIncR(t) ==
    /\ pc[t] = "clone_inc_r"
    /\ UNCHANGED m_ptr /\ ThreadFrame
    /\ heap' = inc_ref(heap, heap[loc[t].n].m_right)
    /\ Thr(t, "up_inc", [loc[t] EXCEPT !.child = loc[t].n])

\* update_parent: child->inc_ref()
UpInc(t) ==
    /\ pc[t] = "up_inc"
    /\ UNCHANGED m_ptr /\ ThreadFrame
    /\ heap' = inc_ref(heap, loc[t].child)
    /\ Thr(t, "up_dec", loc[t])

\* the pointer in the slot update_parent is about to overwrite
SlotOf(t) ==
    IF loc[t].path = <<>> THEN Root(t)
    ELSE IF Back(loc[t].path).m_right THEN heap[Back(loc[t].path).m_node].m_right
    ELSE heap[Back(loc[t].path).m_node].m_left

\* update_parent: node::dec_ref(m_ptr), or node::dec_ref of the parent's child
UpDec(t) ==
    /\ pc[t] = "up_dec"
    /\ UNCHANGED m_ptr /\ ThreadFrame
    /\ Dec(t, [loc[t] EXCEPT !.rel = IF loc[t].path = <<>> THEN RootSlot
                                     ELSE ChildSlot(Back(loc[t].path).m_node,
                                                    Back(loc[t].path).m_right)],
           SlotOf(t), "up_set")

\* update_parent: m_ptr = child, or parent->m_right = child / parent->m_left = child
UpSet(t) ==
    /\ pc[t] = "up_set"
    /\ ThreadFrame
    /\ LET l == loc[t]
           l2 == [l EXCEPT !.rel = NoSlot, !.child = NULL, !.up_ret = ""]
       IN  IF l.path = <<>> THEN
               UNCHANGED heap /\ RootSet(t, l2, l.child, l.up_ret)
           ELSE
               /\ UNCHANGED m_ptr
               /\ heap' = IF Back(l.path).m_right
                          THEN [heap EXCEPT ![Back(l.path).m_node].m_right = l.child]
                          ELSE [heap EXCEPT ![Back(l.path).m_node].m_left = l.child]
               /\ Thr(t, l.up_ret, l2)

\* insert_pull: int c = cmp(v, n->m_value), and the step down to a child
IpCmp(t) ==
    /\ pc[t] = "ip_cmp"
    /\ UNCHANGED <<heap, m_ptr>> /\ ThreadFrame
    /\ LET l == loc[t]
       IN  IF cmp(l.v, heap[l.n].m_value) < 0 THEN
               Thr(t, "ip_loop", [l EXCEPT !.path = Append(@, entry(FALSE, l.n)),
                                           !.n = heap[l.n].m_left])
           ELSE IF cmp(l.v, heap[l.n].m_value) > 0 THEN
               Thr(t, "ip_loop", [l EXCEPT !.path = Append(@, entry(TRUE, l.n)),
                                           !.n = heap[l.n].m_right])
           ELSE
               Thr(t, IF l.is_insert THEN "ip_setval" ELSE "sp_loop", [l EXCEPT !.found = TRUE])

\* insert_pull: n->m_value = v
IpSetval(t) ==
    /\ pc[t] = "ip_setval"
    /\ UNCHANGED m_ptr /\ ThreadFrame
    /\ heap' = set_value(heap, loc[t].n, loc[t].v)
    /\ Thr(t, "sp_loop", loc[t])

\* the calls of update of one round of splay_to_top, in the order of the
\* code, with the pointers read before the first of them (H2 is the heap the
\* round leaves)
Pending(H2, ord) ==
    [i \in 1..Len(ord) |->
        [node |-> ord[i], m_left |-> H2[ord[i]].m_left, m_right |-> H2[ord[i]].m_right]]

\* splay_to_top, top of a round: two entries (or the last one) are popped and
\* the subtree pointers A..D are read; with an empty path the target is
\* stored as the root (m_ptr = n) and the function that called the descent goes on
SpLoop(t) ==
    /\ pc[t] = "sp_loop"
    /\ UNCHANGED heap /\ ThreadFrame
    /\ LET l == loc[t]
           pe == Back(l.path)
           ge == Back(PopBack(l.path))
       IN  IF Len(l.path) > 1 THEN
               /\ UNCHANGED m_ptr
               /\ Thr(t, "sp_upd",
                      [l EXCEPT !.path = PopBack(PopBack(@)),
                                !.pend = Pending(splay_step2(heap, ge.m_right, pe.m_right,
                                                             ge.m_node, pe.m_node, l.n),
                                                 IF ~ge.m_right /\ pe.m_right
                                                 THEN <<pe.m_node, ge.m_node, l.n>>
                                                 ELSE <<ge.m_node, pe.m_node, l.n>>)])
           ELSE IF Len(l.path) = 1 THEN
               /\ UNCHANGED m_ptr
               /\ Thr(t, "sp_upd",
                      [l EXCEPT !.path = <<>>,
                                !.pend = Pending(splay_step1(heap, pe.m_right, pe.m_node, l.n),
                                                 <<pe.m_node, l.n>>)])
           ELSE IF l.self = "left" THEN
               /\ UNCHANGED m_ptr
               /\ Thr(t, "er_join_inc", [l EXCEPT !.left = l.n, !.n = NULL, !.self = "this"])
           ELSE
               /\ m_ptr' = [m_ptr EXCEPT ![t] = l.n]
               /\ Thr(t, IF l.op = "erase" /\ l.found THEN "er_pulled" ELSE "done",
                      [l EXCEPT !.n = NULL])

\* splay_to_top: one call of update(n, l, r)
SpUpd(t) ==
    /\ pc[t] = "sp_upd"
    /\ UNCHANGED m_ptr /\ ThreadFrame
    /\ heap' = update(heap, Head(loc[t].pend).node, Head(loc[t].pend).m_left,
                      Head(loc[t].pend).m_right)
    /\ Thr(t, IF Len(loc[t].pend) > 1 THEN "sp_upd" ELSE "sp_loop",
           [loc[t] EXCEPT !.pend = Tail(@)])

\* erase after pull(v) returned true: m_ptr->m_left and m_ptr->m_right are
\* read for the local handles left and right
ErPulled(t) ==
    /\ pc[t] = "er_pulled"
    /\ UNCHANGED <<heap, m_ptr>> /\ ThreadFrame
    /\ Thr(t, "er_inc_l", [loc[t] EXCEPT !.left = heap[m_ptr[t]].m_left,
                                         !.right = heap[m_ptr[t]].m_right])

\* splay_tree left(*this, m_ptr->m_left): node::inc_ref(m_ptr)
ErIncL(t) ==
    /\ pc[t] = "er_inc_l"
    /\ UNCHANGED m_ptr /\ ThreadFrame
    /\ heap' = inc_ref(heap, loc[t].left)
    /\ Thr(t, "er_inc_r", loc[t])

\* splay_tree right(*this, m_ptr->m_right): node::inc_ref(m_ptr)
ErIncR(t) ==
    /\ pc[t] = "er_inc_r"
    /\ UNCHANGED m_ptr /\ ThreadFrame
    /\ heap' = inc_ref(heap, loc[t].right)
    /\ Thr(t, "er_dec", loc[t])

\* erase: the old root is released: by ~right() after swap(right), by ~left()
\* after swap(left), or by clear() before left.pull_max()
ErDec(t) ==
    /\ pc[t] = "er_dec"
    /\ ThreadFrame
    /\ LET l == loc[t]
       IN  IF empty(l.left) THEN
               /\ m_ptr' = [m_ptr EXCEPT ![t] = l.right]
               /\ Dec(t, [l EXCEPT !.left = NULL, !.right = NULL], m_ptr[t], "done")
           ELSE IF empty(l.right) THEN
               /\ m_ptr' = [m_ptr EXCEPT ![t] = l.left]
               /\ Dec(t, [l EXCEPT !.left = NULL, !.right = NULL], m_ptr[t], "done")
           ELSE
               /\ UNCHANGED m_ptr
               /\ Dec(t, [l EXCEPT !.rel = RootSlot], m_ptr[t], "er_cleared")

\* erase: clear() stores m_ptr = nullptr; left.pull_max() starts at left's root
ErCleared(t) ==
    /\ pc[t] = "er_cleared"
    /\ UNCHANGED heap /\ ThreadFrame
    /\ m_ptr' = [m_ptr EXCEPT ![t] = NULL]
    /\ Thr(t, "pm_loop", [loc[t] EXCEPT !.rel = NoSlot, !.self = "left",
                                        !.n = loc[t].left, !.path = <<>>])

\* pull_max, top of the loop: the read of n's count in n->is_shared()
PmLoop(t) ==
    /\ pc[t] = "pm_loop"
    /\ UNCHANGED <<heap, m_ptr>> /\ ThreadFrame
    /\ IF is_shared(heap, loc[t].n)
       THEN Thr(t, "clone", [loc[t] EXCEPT !.up_ret = "pm_step"])
       ELSE Thr(t, "pm_step", loc[t])

\* pull_max: if (n->m_right) descend, else splay_to_top(path, n)
PmStep(t) ==
    /\ pc[t] = "pm_step"
    /\ UNCHANGED <<heap, m_ptr>> /\ ThreadFrame
    /\ IF heap[loc[t].n].m_right # NULL
       THEN Thr(t, "pm_loop", [loc[t] EXCEPT !.path = Append(@, entry(TRUE, loc[t].n)),
                                             !.n = heap[loc[t].n].m_right])
       ELSE Thr(t, "sp_loop", loc[t])

\* erase: right.m_ptr->inc_ref()
ErJoinInc(t) ==
    /\ pc[t] = "er_join_inc"
    /\ UNCHANGED m_ptr /\ ThreadFrame
    /\ heap' = inc_ref(heap, loc[t].right)
    /\ Thr(t, "er_join_set", loc[t])

\* erase: left.m_ptr->m_right = right.m_ptr; swap(left)
ErJoinSet(t) ==
    /\ pc[t] = "er_join_set"
    /\ ThreadFrame
    /\ heap' = [heap EXCEPT ![loc[t].left].m_right = loc[t].right]
    /\ m_ptr' = [m_ptr EXCEPT ![t] = loc[t].left]
    /\ Thr(t, "er_join_dec", [loc[t] EXCEPT !.left = NULL])

\* erase: ~right() (and ~left() on a null root)
ErJoinDec(t) ==
    /\ pc[t] = "er_join_dec"
    /\ UNCHANGED m_ptr /\ ThreadFrame
    /\ Dec(t, [loc[t] EXCEPT !.right = NULL], loc[t].right, "done")

\* the tree handle 1 has after inserting s[1], ..., s[i] into the empty tree
RECURSIVE Built(_, _)
BuiltNext(b, v) == insert_pull(b.heap, b.m_ptr, <<>>, v, TRUE)

Built(s, i) ==
    IF i = 0 THEN [heap |-> [n \in NodeIds |-> FreeCell], m_ptr |-> NULL]
    ELSE BuiltNext(Built(s, i - 1), s[i])

\* handle 2 is a copy of handle 1 (c is what the copy constructor leaves),
\* and has then run find_memoize(touch), if touch is a value
SeedCopied(root, c, touch) ==
    IF touch = NoValue
    THEN Relocate(c.heap, [h \in Handles |-> root])
    ELSE Relocate(pull(c.heap, c.m_ptr, <<>>, touch).heap,
                  [h \in Handles |-> IF h = 1 THEN root
                                     ELSE pull(c.heap, c.m_ptr, <<>>, touch).m_ptr])

SeedBuilt(b, touch) == SeedCopied(b.m_ptr, copy_ctor(b.heap, b.m_ptr), touch)

Seeded(sd) == SeedBuilt(Built(sd.keys, Len(sd.keys)), sd.touch)

Val(k) == [key |-> k, pay |-> 0]

\* the trees the two threads start from: handle 2 is a copy of handle 1,
\* or a copy that has been splayed since
ThreadSeeds ==
    {[keys |-> <<Val(1), Val(3), Val(2)>>, touch |-> NoValue],
     [keys |-> <<Val(1), Val(2)>>, touch |-> NoValue],
     [keys |-> <<Val(1), Val(2), Val(3)>>, touch |-> Val(1)]}

\* the elements the call op(v) leaves in the tree at ptr when it runs alone
Expected(H, ptr, op, v) ==
    IF op = "insert" THEN to_buffer(insert_pull(H, ptr, <<>>, v, TRUE).heap,
                                    insert_pull(H, ptr, <<>>, v, TRUE).m_ptr)
    ELSE IF op = "erase" THEN to_buffer(erase(H, ptr, <<>>, <<>>, v).heap,
                                        erase(H, ptr, <<>>, <<>>, v).m_ptr)
    ELSE to_buffer(find_memoize(H, ptr, <<>>, v).heap, find_memoize(H, ptr, <<>>, v).m_ptr)

\* thread t is about to call op(v) on handle t
Calling(s, ops, vs) ==
    /\ heap = s.heap
    /\ m_ptr = s.m_ptr
    /\ pc = [t \in Threads |-> "ip_loop"]
    /\ loc = [t \in Threads |->
                 [Idle EXCEPT !.op = ops[t], !.v = vs[t], !.is_insert = (ops[t] = "insert"),
                              !.n = s.m_ptr[t]]]
    /\ expect = [t \in Threads |-> Expected(s.heap, s.m_ptr[t], ops[t], vs[t])]

InitThreads ==
    /\ \E sd \in ThreadSeeds, ops \in [Threads -> ThreadOps], vs \in [Threads -> Values] :
          Calling(Seeded(sd), ops, vs)
    /\ alive = [h \in Handles |-> TRUE]
    /\ path = <<>>
    /\ pm_path = <<>>
    /\ last = Rec("init", 0, 0, NoValue, FALSE, NoValue, FALSE)
    /\ snap = [h \in Handles |-> NoSnap]
    /\ abs = [h \in Handles |-> {}]
    /\ lc_decls = {}
    /\ lc_last = LcRec("init", 0, mk_vm_none, FALSE)

NextThreads ==
    \/ \E t \in Threads : IpLoop(t)
    \/ \E t \in Threads : Clone(t)
    \/ \E t \in Threads : CloneIncL(t)
    \/ \E t \in Threads : CloneIncR(t)
    \/ \E t \in Threads : UpInc(t)
    \/ \E t \in Threads : UpDec(t)
    \/ \E t \in Threads : UpSet(t)
    \/ \E t \in Threads : IpCmp(t)
    \/ \E t \in Threads : IpSetval(t)
    \/ \E t \in Threads : SpLoop(t)
    \/ \E t \in Threads : SpUpd(t)
    \/ \E t \in Threads : ErPulled(t)
    \/ \E t \in Threads : ErIncL(t)
    \/ \E t \in Threads : ErIncR(t)
    \/ \E t \in Threads : ErDec(t)
    \/ \E t \in Threads : ErCleared(t)
    \/ \E t \in Threads : PmLoop(t)
    \/ \E t \in Threads : PmStep(t)
    \/ \E t \in Threads : ErJoinInc(t)
    \/ \E t \in Threads : ErJoinSet(t)
    \/ \E t \in Threads : ErJoinDec(t)
    \/ \E t \in Threads : Free(t)

SpecThreads == InitThreads /\ [][NextThreads]_vars

\* ------------------------------------------------------ thread-safe sharing
\* the children of x, without the pointer in the slot rel
Kids(H, x, rel) ==
    {IF rel = ChildSlot(x, FALSE) THEN NULL ELSE H[x].m_left,
     IF rel = ChildSlot(x, TRUE) THEN NULL ELSE H[x].m_right} \ {NULL}

\* the nodes reachable from the nodes S by child pointers other than rel
RECURSIVE Closure(_, _, _)
ClosureStep(H, S, N, rel) == IF N \subseteq S THEN S ELSE Closure(H, S \cup N, rel)

Closure(H, S, rel) == ClosureStep(H, S, UNION {Kids(H, x, rel) : x \in S}, rel)

\* the pointers thread u holds a reference through: the root of its handle,
\* the local handles left and right of erase, the nodes of its path, the
\* cursor n and the node update_parent is linking, and the subtrees a
\* round of splay_to_top is re-attaching.  A slot whose pointer u has
\* released with dec_ref (and not overwritten yet) holds none.
RootsOf(u) ==
    ({IF loc[u].rel = RootSlot /\ loc[u].self = "this" THEN NULL ELSE m_ptr[u],
      IF loc[u].rel = RootSlot /\ loc[u].self = "left" THEN NULL ELSE loc[u].left,
      loc[u].right, loc[u].n, loc[u].child}
     \cup {loc[u].path[i].m_node : i \in 1..Len(loc[u].path)}
     \cup {loc[u].pend[i].node : i \in 1..Len(loc[u].pend)}
     \cup {loc[u].pend[i].m_left : i \in 1..Len(loc[u].pend)}
     \cup {loc[u].pend[i].m_right : i \in 1..Len(loc[u].pend)}) \ {NULL}

\* the nodes reachable from the handle thread u works on through pointers u
\* still holds a reference for
HeldBy(u) == Closure(heap, RootsOf(u), loc[u].rel)

\* the nodes reachable from the handle thread u works on through any pointer
\* stored in it, a released one included
ReachableBy(u) == Closure(heap, RootsOf(u) \cup ({m_ptr[u], loc[u].left} \ {NULL}), NoSlot)

Only(x) == {x} \ {NULL}

\* the child a frame of delete is about to release
FrameChild(f) == IF f.stage = 0 THEN heap[f.node].m_left ELSE heap[f.node].m_right

\* the nodes whose fields (m_left, m_right, m_value) the next step of thread u reads
Reading(u) ==
    IF pc[u] \in {"clone", "ip_cmp", "pm_step", "clone_inc_l", "clone_inc_r"} THEN Only(loc[u].n)
    ELSE IF pc[u] = "up_dec" THEN
        (IF loc[u].path = <<>> THEN {} ELSE {Back(loc[u].path).m_node})
    ELSE IF pc[u] = "sp_loop" THEN
        (IF loc[u].path = <<>> THEN {}
         ELSE IF Len(loc[u].path) = 1 THEN {loc[u].n, Back(loc[u].path).m_node}
         ELSE {loc[u].n, Back(loc[u].path).m_node, Back(PopBack(loc[u].path)).m_node})
    ELSE IF pc[u] = "er_pulled" THEN Only(m_ptr[u])
    ELSE IF pc[u] = "free" /\ Back(loc[u].frames).stage < 2 THEN {Back(loc[u].frames).node}
    ELSE {}

\* the nodes whose count the next step of thread u reads, increments or decrements
Counting(u) ==
    IF pc[u] \in {"ip_loop", "pm_loop"} THEN Only(loc[u].n)
    ELSE IF pc[u] = "clone_inc_l" THEN Only(heap[loc[u].n].m_left)
    ELSE IF pc[u] = "clone_inc_r" THEN Only(heap[loc[u].n].m_right)
    ELSE IF pc[u] = "up_inc" THEN Only(loc[u].child)
    ELSE IF pc[u] = "up_dec" THEN Only(SlotOf(u))
    ELSE IF pc[u] = "er_inc_l" THEN Only(loc[u].left)
    ELSE IF pc[u] \in {"er_inc_r", "er_join_inc", "er_join_dec"} THEN Only(loc[u].right)
    ELSE IF pc[u] = "er_dec" THEN Only(m_ptr[u])
    ELSE IF pc[u] = "free" /\ Back(loc[u].frames).stage < 2 THEN Only(FrameChild(Back(loc[u].frames)))
    ELSE {}

\* the nodes a field of which the next step of thread t writes
Writing(t) ==
    IF pc[t] = "up_set" THEN (IF loc[t].path = <<>> THEN {} ELSE {Back(loc[t].path).m_node})
    ELSE IF pc[t] = "ip_setval" THEN {loc[t].n}
    ELSE IF pc[t] = "sp_upd" THEN {Head(loc[t].pend).node}
    ELSE IF pc[t] = "er_join_set" THEN {loc[t].left}
    ELSE {}

\* the node the next step of thread t deallocates
Deallocating(t) ==
    IF pc[t] = "free" /\ Back(loc[t].frames).stage = 2 THEN {Back(loc[t].frames).node} ELSE {}

\* the next step of thread t touches nothing of thread u, R being the nodes
\* of u: what it writes or deallocates is neither in R nor read by u's next
\* step; it writes only a node of count one and deallocates only a node of
\* count zero; and every node it accesses is allocated
StepSafe(t, u, R) ==
    /\ (Writing(t) \cup Deallocating(t)) \cap (R \cup Reading(u)) = {}
    /\ \A w \in Writing(t) : heap[w].m_rc = 1
    /\ \A w \in Deallocating(t) : heap[w].m_rc = 0
    /\ \A x \in Reading(t) \cup Counting(t) \cup Writing(t) \cup Deallocating(t) : heap[x].live

\* the call of thread t has returned with the elements it leaves when run alone
EndsAsAlone(t) == pc[t] = "done" => to_buffer(heap, m_ptr[t]) = expect[t]

\* ------------------------------------------------------------- properties
TypeOK ==
    /\ m_ptr \in [Handles -> NodeIds \cup {NULL}]
    /\ alive \in [Handles -> BOOLEAN]
    /\ path = <<>> /\ pm_path = <<>>

\* the nodes a walk from n meets
Reach(H, n) == SeqRange(Walk(H, n, <<>>))

InOrder(h) == to_buffer(heap, m_ptr[h])

StrictlyAscending(s) == \A i \in 1..(Len(s) - 1) : cmp(s[i], s[i + 1]) < 0

KeysOf(s) == {s[i].key : i \in 1..Len(s)}

\* some node of handle h's tree is also in handle g's tree
SharesWith(h, g) == Reach(heap, m_ptr[h]) \cap Reach(heap, m_ptr[g]) # {}

\* C1: a handle that was the source or the target of a copy keeps, for as
\* long as it is not operated on itself, exactly the in-order sequence of
\* values (payloads included) it had at the copy, whatever is done to the
\* other handle.
C1_AliasingSafety ==
    \A h \in Handles :
        snap[h].valid => alive[h] /\ InOrder(h) = snap[h].seq

\* C1 witness: handle 2 still holds a copy; handle 1 has since overwritten the
\* payload of a key that 2 holds too, so the two sequences differ in a payload only.
C1_Witness ==
    /\ snap[2].valid
    /\ last.op = "insert" /\ last.h = 1 /\ last.found
    /\ Len(snap[2].seq) >= 2
    /\ InOrder(1) # snap[2].seq
    /\ KeysOf(InOrder(1)) = KeysOf(snap[2].seq)

\* C2: every live handle's tree passes check_invariant and its in-order
\* traversal is strictly ascending under cmp (so no two elements compare equal).
C2_Ordered ==
    \A h \in Handles :
        alive[h] => /\ check_invariant(heap, m_ptr[h])
                    /\ StrictlyAscending(InOrder(h))

\* C2 witness: a find_memoize just splayed a tree of at least four nodes whose
\* nodes are partly shared with the other handle.
C2_Witness ==
    /\ last.op = "find_memoize" /\ last.h = 1 /\ last.found
    /\ size(heap, m_ptr[1]) >= 4
    /\ ~is_eqp(m_ptr[1], m_ptr[2]) /\ SharesWith(1, 2)

\* C3: the keys stored in a handle's tree are exactly the abstract set built
\* by set-add on insert and set-remove on erase; contains() is membership in
\* it, size() its cardinality, empty() its emptiness.
C3_RefinesSet ==
    \A h \in Handles :
        alive[h] =>
            /\ KeysOf(InOrder(h)) = abs[h]
            /\ \A k \in AllKeys :
                   contains(heap, m_ptr[h], [key |-> k, pay |-> 0]) <=> k \in abs[h]
            /\ size(heap, m_ptr[h]) = Cardinality(abs[h])
            /\ empty(m_ptr[h]) <=> abs[h] = {}

\* C3 witness: an erase has just removed a key from a three-element set.
C3_Witness ==
    /\ last.op = "erase" /\ last.found
    /\ Cardinality(abs[last.h]) = 2
    /\ last.v.key \notin abs[last.h]
    /\ ~contains(heap, m_ptr[last.h], last.v)

\* number of pointers at node n: child pointers of live nodes and roots of live handles
Incoming(n) ==
    Cardinality({m \in NodeIds : heap[m].live /\ heap[m].m_left = n})
    + Cardinality({m \in NodeIds : heap[m].live /\ heap[m].m_right = n})
    + Cardinality({h \in Handles : alive[h] /\ m_ptr[h] = n})

\* C4: between operations every node reachable from a live handle is
\* allocated, has rc >= 1, and its rc is the number of pointers at it.
C4_RefCounts ==
    \A h \in Handles :
        alive[h] =>
            \A n \in Reach(heap, m_ptr[h]) :
                /\ heap[n].live
                /\ heap[n].m_rc >= 1
                /\ heap[n].m_rc = Incoming(n)

\* C4 witness: an erase that joined two subtrees has completed on a tree
\* that shares a node of reference count two with the other handle.
C4_Witness ==
    /\ last.op = "erase" /\ last.found
    /\ size(heap, m_ptr[last.h]) >= 2
    /\ ~is_eqp(m_ptr[1], m_ptr[2]) /\ SharesWith(1, 2)
    /\ \E n \in NodeIds : heap[n].live /\ heap[n].m_rc = 2

\* C5: find_memoize(v) returns present iff find(v) was present before the
\* call, what it returns compares equal to v, and the handle's in-order
\* sequence is the same after the call as before it.
C5_FindMemoizeIsLookup ==
    [][last'.op = "find_memoize" =>
          /\ last'.found = find(heap, m_ptr[last'.h], last'.v).present
          /\ last'.found => cmp(last'.ret, last'.v) = 0
          /\ to_buffer(heap', m_ptr'[last'.h]) = to_buffer(heap, m_ptr[last'.h])]_vars

\* C5 witness: a find_memoize of an absent key has completed on a non-empty
\* tree that shares nodes with the other handle.
C5_Witness ==
    /\ last.op = "find_memoize" /\ ~last.found
    /\ size(heap, m_ptr[last.h]) >= 3
    /\ ~is_eqp(m_ptr[1], m_ptr[2]) /\ SharesWith(1, 2)

\* C6: right after a find_memoize(v) that found v, the root of that handle
\* holds the element equal to v, and find(v) compares v against one node
\* only and returns present.
C6_MemoizedAtRoot ==
    (last.op = "find_memoize" /\ last.found) =>
        /\ m_ptr[last.h] # NULL
        /\ cmp(heap[m_ptr[last.h]].m_value, last.v) = 0
        /\ find(heap, m_ptr[last.h], last.v).present
        /\ find(heap, m_ptr[last.h], last.v).examined = 1

\* C6 witness: find_memoize found the key in a tree of at least four nodes,
\* and the root now has a left and a right subtree.
C6_Witness ==
    /\ last.op = "find_memoize" /\ last.found
    /\ size(heap, m_ptr[last.h]) >= 4
    /\ heap[m_ptr[last.h]].m_left # NULL
    /\ heap[m_ptr[last.h]].m_right # NULL

\* C7: erase(v) on a handle with no element equal to v leaves the handle's
\* in-order sequence as it was.
C7_EraseAbsentNoOp ==
    [][(last'.op = "erase" /\ ~contains(heap, m_ptr[last'.h], last'.v)) =>
          to_buffer(heap', m_ptr'[last'.h]) = to_buffer(heap, m_ptr[last'.h])]_vars

\* C7 witness: an erase of an absent key has completed on a tree of three
\* nodes some of which the other handle shares.
C7_Witness ==
    /\ last.op = "erase" /\ ~last.found
    /\ size(heap, m_ptr[last.h]) >= 3
    /\ ~is_eqp(m_ptr[1], m_ptr[2]) /\ SharesWith(1, 2)

\* number of elements of s comparing equal to v
CountEqual(s, v) == Cardinality({i \in 1..Len(s) : cmp(s[i], v) = 0})

\* C8: insert(v) on a handle that stores a value comparing equal to v makes
\* the stored value v, keeps the number of elements, and leaves exactly one
\* element comparing equal to v.
C8_OverwriteOnEqual ==
    [][(last'.op = "insert" /\ contains(heap, m_ptr[last'.h], last'.v)) =>
          /\ find(heap', m_ptr'[last'.h], last'.v).present
          /\ find(heap', m_ptr'[last'.h], last'.v).value = last'.v
          /\ size(heap', m_ptr'[last'.h]) = size(heap, m_ptr[last'.h])
          /\ CountEqual(to_buffer(heap', m_ptr'[last'.h]), last'.v) = 1]_vars

\* C8 witness: an insert has overwritten payload 0 by payload 1 for a key
\* that the other handle still stores with payload 0.
C8_Witness ==
    /\ last.op = "insert" /\ last.found /\ last.v.pay = 1
    /\ find(heap, m_ptr[last.h], last.v).value.pay = 1
    /\ \E g \in Handles :
          /\ g # last.h
          /\ find(heap, m_ptr[g], last.v).present
          /\ find(heap, m_ptr[g], last.v).value.pay = 0

\* C9: applying insert (or erase) of v a second time, to the result of the
\* first application, yields the same elements as the first application did.
C9_Idempotent ==
    [][last'.rep =>
          to_buffer(heap', m_ptr'[ResultOf(last')]) = to_buffer(heap, m_ptr[last'.h])]_vars

\* C9 witness: the free-standing insert was applied to the result of the
\* free-standing insert of the same value, held by the other handle.
C9_Witness ==
    /\ last.rep /\ last.op = "free_insert" /\ last.d # last.h
    /\ size(heap, m_ptr[last.d]) >= 2

\* every node reachable from root in H0 is allocated in H1 with the same
\* value and the same child pointers
FrameOK(H0, H1, root) ==
    \A n \in Reach(H0, root) :
        /\ H1[n].live
        /\ H1[n].m_value = H0[n].m_value
        /\ H1[n].m_left = H0[n].m_left
        /\ H1[n].m_right = H0[n].m_right

\* C10: the free-standing insert(t, v) and erase(t, v) leave every node
\* reachable from t with its value and child pointers, and t with its root
\* and its elements.
C10_FreeFunctionsFrame ==
    [][last'.op \in FreeOps =>
          LET t == last'.h
              r == IF last'.op = "free_insert"
                   THEN free_insert(heap, m_ptr[t], path, last'.v).heap
                   ELSE free_erase(heap, m_ptr[t], path, pm_path, last'.v).heap
          IN  /\ FrameOK(heap, r, m_ptr[t])
              /\ last'.d # t => to_buffer(heap', m_ptr'[t]) = to_buffer(heap, m_ptr[t])
              /\ (t = 1 /\ last'.d = 2) =>
                     m_ptr'[1] = m_ptr[1] /\ FrameOK(heap, heap', m_ptr[1])]_vars

\* C10 witness: the free-standing erase has removed a key of t into the other
\* handle, and t still has at least two elements.
C10_Witness ==
    /\ last.op = "free_erase" /\ last.found /\ last.d # last.h
    /\ size(heap, m_ptr[last.h]) >= 2
    /\ size(heap, m_ptr[last.d]) = size(heap, m_ptr[last.h]) - 1

\* C11 as stated: two threads each run one call of insert, erase or
\* find_memoize on their own handle, and the handles share nodes at the
\* start.  With atomic increments and decrements of the counts, in every
\* interleaving of their steps no thread writes a field of, or deallocates,
\* a node that is still reachable from the other thread's handle or that the
\* other thread's next step reads; and each handle ends with the elements
\* its own call leaves when it runs alone.
C11_NoWriteToReachable ==
    \A t \in Threads : StepSafe(t, Other(t), ReachableBy(Other(t))) /\ EndsAsAlone(t)

\* C11, amended: the same, for the nodes the other thread's handle reaches
\* through pointers it still holds a reference for.  Between
\* node::dec_ref(m_ptr) and m_ptr = child in update_parent (and between the
\* dec_ref and the store of a child slot) the slot still stores the pointer
\* it has released, and the other thread, now the only owner, may write the
\* node behind it.
C11_NoWriteToHeld ==
    \A t \in Threads : StepSafe(t, Other(t), HeldBy(Other(t))) /\ EndsAsAlone(t)

\* a thread is about to write a node while the other thread is inside its
\* own call, has already copied a node, and still reaches nodes that the
\* writer reaches too
C11_Witness ==
    \E t \in Threads :
        /\ Writing(t) # {}
        /\ pc[Other(t)] \notin {"done", "ip_loop"}
        /\ \E x \in HeldBy(Other(t)) : x \in HeldBy(t) /\ heap[x].m_rc > 1
        /\ loc[Other(t)].op # "find_memoize"
        /\ loc[t].op # loc[Other(t)].op


\* the assertions met by the call the record l describes, started from the
\* current heap
AssertsOf(l) ==
    IF l.op = "insert" THEN insert_pull_asserts(heap, m_ptr[l.h], path, m_ptr[l.h], l.v, TRUE)
    ELSE IF l.op = "find_memoize" THEN insert_pull_asserts(heap, m_ptr[l.h], path, m_ptr[l.h], l.v, FALSE)
    ELSE IF l.op = "erase" THEN erase_asserts(heap, m_ptr[l.h], path, pm_path, l.v)
    ELSE TRUE

\* C12: in every insert, erase and find_memoize (and the pull_max inside
\* erase) every lean_assert(!x->is_shared()) of update, splay_to_top,
\* update_parent and insert_pull holds, and the value overwrite and the
\* attaching of the right subtree in erase write to a node of rc at most 1.
C12_WritesUnshared ==
    [][AssertsOf(last')]_vars

\* C12 witness: an erase has removed a key from a tree whose nodes the other
\* handle shared, leaving three elements, while the other handle keeps four.
C12_Witness ==
    /\ last.op = "erase" /\ last.h = 1 /\ last.found
    /\ size(heap, m_ptr[1]) = 3
    /\ size(heap, m_ptr[2]) = 4
    /\ heap[m_ptr[1]].m_left # NULL /\ heap[m_ptr[1]].m_right # NULL

\* the node of the tree rooted at root that holds key k
NodeWith(H, root, k) == CHOOSE n \in Reach(H, root) : H[n].m_value.key = k

\* d is the end of a descent (target d.n, root d.m_ptr just before
\* "m_ptr = n"); root1 is the handle's root in the heap H1 of a later moment:
\* root1 is the target and its count is the target's count at the end of the
\* descent plus dn; the old root, if another node, has its count plus dr
PublishedWith(d, H1, root1, dn, dr) ==
    /\ root1 # NULL
    /\ H1[root1].m_value = d.heap[d.n].m_value
    /\ H1[root1].m_rc = d.heap[d.n].m_rc + dn
    /\ d.m_ptr # d.n =>
           H1[NodeWith(H1, root1, d.heap[d.m_ptr].m_value.key)].m_rc = d.heap[d.m_ptr].m_rc + dr

\* the descent of insert_pull started by the call the record l describes
DescentOf(l) ==
    insert_pull_loop(heap, m_ptr[l.h], path, m_ptr[l.h], l.v, l.op = "insert")

\* erase(v) joins: pull(v) (leaving r) found v at a root with two subtrees
Joins(r) == r.found /\ r.heap[r.m_ptr].m_left # NULL /\ r.heap[r.m_ptr].m_right # NULL

\* the descent of left.pull_max() in an erase that joins (r is what pull leaves)
PullMaxDescentOf(r) ==
    pull_max_descent(dec_ref(inc_ref(inc_ref(r.heap, r.heap[r.m_ptr].m_left),
                                     r.heap[r.m_ptr].m_right), r.m_ptr),
                     r.heap[r.m_ptr].m_left, pm_path, r.heap[r.m_ptr].m_left)

\* the handle's tree after the step shows the target published with the
\* count changes dn (target) and dr (old root)
PublishStep(dn, dr) ==
    /\ (last'.op \in {"insert", "find_memoize"} /\ ~DescentOf(last').ret_false) =>
           PublishedWith(DescentOf(last'), heap', m_ptr'[last'.h], dn, dr)
    /\ (last'.op = "erase" /\ Joins(pull(heap, m_ptr[last'.h], path, last'.v))) =>
           PublishedWith(PullMaxDescentOf(pull(heap, m_ptr[last'.h], path, last'.v)),
                         heap', m_ptr'[last'.h], dn, dr)

\* C13 as stated: storing the splay target N as the root increments N's
\* reference count and decrements the old root's, if that is another node.
C13_PublishCounts ==
    [][PublishStep(1, -1)]_vars

\* C13, amended: storing the splay target N as the root (m_ptr = n) changes
\* no reference count: after insert, find_memoize and the pull_max of erase,
\* N is the root with the count it had at the end of the descent, and the old
\* root, if another node, is below N with the count it had.
C13_PublishKeepsCounts ==
    [][PublishStep(0, 0)]_vars

\* C13 witness: find_memoize has brought a key to the root of a tree of at
\* least three nodes; the other handle shares nodes with it and still has
\* the earlier root.
C13_Witness ==
    /\ last.op = "find_memoize" /\ last.h = 1 /\ last.found
    /\ size(heap, m_ptr[1]) >= 3
    /\ SharesWith(1, 2)
    /\ m_ptr[2] # NULL /\ heap[m_ptr[1]].m_value # heap[m_ptr[2]].m_value
    /\ heap[m_ptr[1]].m_rc = 1

\* number of pointers at node n in heap H: child pointers of live nodes and
\* the roots P of the handles that exist (A)
IncomingIn(H, P, A, n) ==
    Cardinality({m \in NodeIds : H[m].live /\ H[m].m_left = n})
    + Cardinality({m \in NodeIds : H[m].live /\ H[m].m_right = n})
    + Cardinality({h \in Handles : A[h] /\ P[h] = n})

\* the nodes the splay phase that ends the descent d may re-link
SplayNodes(d) == {d.path[i].m_node : i \in 1..Len(d.path)} \cup {d.n}

\* number of child pointers at node n held by the nodes S in heap H
SlotsAt(H, S, n) ==
    Cardinality({m \in S : H[m].m_left = n}) + Cardinality({m \in S : H[m].m_right = n})

\* H1 is what splay_to_top leaves of the heap H0 of a descent with splay
\* nodes S, first path node top (NULL if the path is empty) and target t:
\* cells other than S are untouched; the cells S keep their count, value and
\* allocation state; every node is the child of as many nodes as before, but
\* for the target (no longer a child) and the first path node (now a child)
SplayKept(H0, H1, S, top, t) ==
    /\ \A n \in NodeIds \ S : H1[n] = H0[n]
    /\ \A n \in S :
          /\ H1[n].m_rc = H0[n].m_rc
          /\ H1[n].live = H0[n].live
          /\ H1[n].m_value = H0[n].m_value
    /\ \A n \in NodeIds :
          SlotsAt(H1, S, n) =
              SlotsAt(H0, S, n) + (IF n = top THEN 1 ELSE 0) - (IF top # NULL /\ n = t THEN 1 ELSE 0)

SplayKeeps(d, H1) ==
    SplayKept(d.heap, H1, SplayNodes(d), IF d.path = <<>> THEN NULL ELSE d.path[1].m_node, d.n)

SplayKeepsOf(d) == ~d.ret_false => SplayKeeps(d, splay_to_top(d.heap, d.path, d.n).heap)

\* C14: splay_to_top changes no reference count, only re-links the path
\* nodes and the target, moving every subtree reference to one new slot; once
\* the target is stored as the root, every node the handle reaches has as
\* many incoming pointers as its count says.
C14_SplayKeepsCounts ==
    [][/\ last'.op \in {"insert", "find_memoize", "erase"} =>
              /\ SplayKeepsOf(DescentOf(last'))
              /\ \A n \in Reach(heap', m_ptr'[last'.h]) :
                     heap'[n].m_rc = IncomingIn(heap', m_ptr', alive', n)
       /\ (last'.op = "erase" /\ Joins(pull(heap, m_ptr[last'.h], path, last'.v))) =>
              SplayKeepsOf(PullMaxDescentOf(pull(heap, m_ptr[last'.h], path, last'.v)))]_vars

\* C14 witness: an insert of a new key has splayed the leaf to the root of a
\* tree of four nodes, over a path of at least two nodes, while the other
\* handle shares nodes with the tree.
C14_Witness ==
    /\ last.op = "insert" /\ last.h = 1 /\ ~last.found
    /\ size(heap, m_ptr[1]) = 4
    /\ SharesWith(1, 2) /\ ~is_eqp(m_ptr[1], m_ptr[2])
    /\ \/ heap[m_ptr[1]].m_left = NULL
       \/ heap[m_ptr[1]].m_right = NULL

\* the greatest of the values S under cmp
Greatest(S) == CHOOSE x \in S : \A y \in S : cmp(y, x) <= 0

\* the heap erase has built when it calls left.pull_max(): the two local
\* handles hold the subtrees of the root r.m_ptr, and clear() has run
Cleared(r) ==
    dec_ref(inc_ref(inc_ref(r.heap, r.heap[r.m_ptr].m_left), r.heap[r.m_ptr].m_right), r.m_ptr)

\* erase joins L and R (r is what pull(v) leaves, pm what left.pull_max()
\* leaves, e what erase leaves, root1 the handle's root in the heap H1 after
\* the step): the root of left is the maximum of L and has no right child;
\* erase makes R its right child and it the root, the greatest element below v
JoinedBy(r, L, R, pm, e, H1, root1, v, before) ==
    /\ pm.m_ptr # NULL
    /\ pm.heap[pm.m_ptr].m_right = NULL
    /\ pm.heap[pm.m_ptr].m_value = Greatest(SeqRange(to_buffer(r.heap, L)))
    /\ to_buffer(pm.heap, pm.m_ptr) = to_buffer(r.heap, L)
    /\ e.m_ptr = pm.m_ptr
    /\ e.heap[e.m_ptr].m_right = R
    /\ root1 # NULL
    /\ H1[root1].m_value = Greatest({x \in SeqRange(before) : cmp(x, v) < 0})
    /\ to_buffer(H1, H1[root1].m_right) = to_buffer(r.heap, R)
    /\ to_buffer(H1, root1) = to_buffer(r.heap, L) \o to_buffer(r.heap, R)

\* erase found v (r is what pull(v) leaves, e what erase leaves)
ErasedBy(r, L, R, e, H1, root1, v, before) ==
    IF L = NULL THEN
        /\ e.m_ptr = R
        /\ (R = NULL) = (root1 = NULL)
        /\ to_buffer(H1, root1) = to_buffer(r.heap, R)
        /\ R # NULL => H1[root1].m_value = r.heap[R].m_value
    ELSE IF R = NULL THEN
        /\ e.m_ptr = L
        /\ root1 # NULL
        /\ H1[root1].m_value = r.heap[L].m_value
        /\ to_buffer(H1, root1) = to_buffer(r.heap, L)
    ELSE JoinedBy(r, L, R, pull_max(Cleared(r), L, pm_path), e, H1, root1, v, before)

ErasedFrom(r, h, v) ==
    r.found => ErasedBy(r, r.heap[r.m_ptr].m_left, r.heap[r.m_ptr].m_right,
                        erase(heap, m_ptr[h], path, pm_path, v), heap', m_ptr'[h], v,
                        to_buffer(heap, m_ptr[h]))

\* C15: an erase(v) that finds v at a root with subtrees L and R, both
\* non-empty, brings the maximum of L to L's root, where it has no right
\* child, attaches R as its right child and makes it the root: the greatest
\* element smaller than v.  With L empty the new root is R's root, with R
\* empty it is L's root.
C15_EraseJoins ==
    [][last'.op = "erase" =>
          ErasedFrom(pull(heap, m_ptr[last'.h], path, last'.v), last'.h, last'.v)]_vars

\* C15 witness: an erase has joined a left subtree of two nodes and a right
\* subtree: the root is smaller than the erased key, the right child greater,
\* and the root has a left child.
C15_Witness ==
    /\ last.op = "erase" /\ last.found
    /\ m_ptr[last.h] # NULL
    /\ heap[m_ptr[last.h]].m_left # NULL
    /\ heap[m_ptr[last.h]].m_right # NULL
    /\ cmp(heap[m_ptr[last.h]].m_value, last.v) < 0
    /\ cmp(last.v, heap[heap[m_ptr[last.h]].m_right].m_value) < 0

\* the least of the values S under cmp
Least(S) == CHOOSE x \in S : \A y \in S : cmp(x, y) <= 0

\* the value of the last node a search for v meets on its way down from n
\* (prev is the value of the node above n)
RECURSIVE LastVisited(_, _, _, _)
LastVisited(H, n, v, prev) ==
    IF n = NULL THEN prev
    ELSE IF cmp(v, H[n].m_value) < 0 THEN LastVisited(H, H[n].m_left, v, H[n].m_value)
    ELSE IF cmp(v, H[n].m_value) > 0 THEN LastVisited(H, H[n].m_right, v, H[n].m_value)
    ELSE H[n].m_value

\* the stored values next to v: the greatest below it and the least above it
Neighbours(S, v) ==
    (IF {x \in S : cmp(x, v) < 0} = {} THEN {} ELSE {Greatest({x \in S : cmp(x, v) < 0})})
    \cup (IF {x \in S : cmp(x, v) > 0} = {} THEN {} ELSE {Least({x \in S : cmp(x, v) > 0})})

\* pull(v) missed on the tree rooted at ptr of heap H; found is what it
\* returned, H1 and root1 the heap and the handle's root after the step
MissedBy(H, ptr, v, found, H1, root1) ==
    /\ ~found
    /\ IF ptr = NULL THEN H1 = H /\ root1 = NULL
       ELSE /\ root1 # NULL
            /\ H1[root1].m_value = LastVisited(H, ptr, v, NoValue)
            /\ H1[root1].m_value \in Neighbours(SeqRange(to_buffer(H, ptr)), v)
            /\ to_buffer(H1, root1) = to_buffer(H, ptr)

\* C16: pull(v), as find_memoize and erase run it, on a handle with no
\* element equal to v returns not-found; on a non-empty handle the new root
\* is the last node the descent visited, holding the greatest element below
\* v or the least above it; on an empty handle nothing changes.
C16_MissPromotesNeighbour ==
    [][(last'.op \in {"find_memoize", "erase"} /\ ~contains(heap, m_ptr[last'.h], last'.v)) =>
          MissedBy(heap, m_ptr[last'.h], last'.v, last'.found, heap', m_ptr'[last'.h])]_vars

\* C16 witness: a find_memoize missed its key and promoted the least greater
\* element from below the old root: the root is above the key, has a left
\* subtree of smaller elements, and the other handle still has the old root.
C16_Witness ==
    /\ last.op = "find_memoize" /\ last.h = 1 /\ ~last.found
    /\ m_ptr[1] # NULL /\ m_ptr[2] # NULL
    /\ cmp(last.v, heap[m_ptr[1]].m_value) < 0
    /\ heap[m_ptr[1]].m_left # NULL
    /\ heap[m_ptr[1]].m_value # heap[m_ptr[2]].m_value
    /\ to_buffer(heap, m_ptr[1]) = to_buffer(heap, m_ptr[2])

\* C17: between calls both thread_local path vectors are empty: every insert,
\* erase and find_memoize starts with them empty and leaves them empty on
\* every return path.
C17_PathsEmpty ==
    path = <<>> /\ pm_path = <<>>

\* C17 witness: an erase with two descents (pull, then pull_max through a
\* left subtree of two nodes that the other handle shares) has returned.
C17_Witness ==
    /\ last.op = "erase" /\ last.h = 1 /\ last.found
    /\ size(heap, m_ptr[1]) = 3
    /\ heap[m_ptr[1]].m_left # NULL /\ heap[m_ptr[1]].m_right # NULL
    /\ cmp(heap[m_ptr[1]].m_value, last.v) < 0
    /\ SharesWith(1, 2)
    /\ path = <<>> /\ pm_path = <<>>

\* C18: right after insert(v) the root of the handle holds v, whether v was
\* new or overwrote an equal element, and whether or not the tree was empty
\* or shared.
C18_InsertedAtRoot ==
    last.op = "insert" =>
        /\ m_ptr[last.h] # NULL
        /\ heap[m_ptr[last.h]].live
        /\ heap[m_ptr[last.h]].m_value = last.v

\* C18 witness: an insert of a new key into a tree shared with the other
\* handle has made the new node the root, between a left and a right subtree.
C18_Witness ==
    /\ last.op = "insert" /\ last.h = 1 /\ ~last.found
    /\ size(heap, m_ptr[1]) = 4
    /\ heap[m_ptr[1]].m_left # NULL /\ heap[m_ptr[1]].m_right # NULL
    /\ heap[m_ptr[1]].m_value = last.v
    /\ SharesWith(1, 2)

\* the nodes some existing handle reaches
Reachable == UNION {Reach(heap, m_ptr[h]) : h \in {g \in Handles : alive[g]}}

\* the allocated nodes
Allocated == {n \in NodeIds : heap[n].live}

\* C19: between operations every allocated node is reachable from the root
\* of an existing handle and has a count of at least one; so when every
\* handle is empty or destroyed, no node is allocated.
C19_NoLeak ==
    /\ Allocated \subseteq Reachable
    /\ \A n \in Allocated : heap[n].m_rc >= 1
    /\ (\A h \in Handles : ~alive[h] \/ m_ptr[h] = NULL) => Allocated = {}

\* C19 witness: an erase on one handle has removed the root of a tree whose
\* nodes the other handle shares: the other handle keeps its three elements,
\* this one has two, and path copies are allocated beside the shared nodes.
C19_Witness ==
    /\ last.op = "erase" /\ last.found
    /\ size(heap, m_ptr[last.h]) = 2
    /\ \E g \in Handles : g # last.h /\ alive[g] /\ size(heap, m_ptr[g]) = 3
    /\ SharesWith(1, 2)
    /\ Cardinality(Allocated) >= 4
    /\ Allocated = Reachable

\* C20: lc.get_local n returns none exactly when the context declares no
\* local named n, returns some(the local constant for n) exactly when
\* find_local_decl(n) finds a declaration, and never calls get_local for a
\* name the context does not declare.
C20_GetLocal ==
    lc_last.op = "get_local" =>
        /\ (lc_last.ret = mk_vm_none) <=> ~find_local_decl(lc_decls, lc_last.n)
        /\ (lc_last.ret = [kind |-> "some", name |-> lc_last.n]) <=> find_local_decl(lc_decls, lc_last.n)
        /\ lc_last.called_get_local => find_local_decl(lc_decls, lc_last.n)
====
